---- MODULE Spec2Model ----
(***************************************************************************)
(* Choreography SAGA of msa-saga-go-practical: the Order service (order    *)
(* rows, CreateOrder, the six event handlers), the Payment service         *)
(* (payment rows, HandleOrderCreated, HandleStockReservationFailed, the    *)
(* outbox relay), the Inventory and Delivery services, the Kafka consumer  *)
(* loop and the shutdown of main.  Every database call, bus publish and    *)
(* key-value call is one step; a call that can return an error fails       *)
(* nondeterministically.                                                   *)
(***************************************************************************)
EXTENDS Integers, Sequences, FiniteSets, TLC

\* ------------------------------------------------------------------ bounds
MaxCalls == 2        \* CreateOrder requests issued
MaxDeliveries == 3   \* messages handed to the Order service's consumer
MaxPayDeliveries == 2 \* messages handed to the Payment service's consumer
MaxInvDeliveries == 3 \* messages handed to the Inventory service's consumer
MaxStock == 2        \* available_quantity of product 1 at the start
MaxDelCalls == 3     \* calls of the Delivery service's HandleStockReserved
MaxMessages == 3     \* messages of the partition a claim reads
MaxSessions == 2     \* consumer group sessions that own the partition in turn
MaxTicks == 2        \* ticks of the outbox worker while main is observed
MaxReserves == 3     \* Reserve calls answered for one key of one service
MaxRetryAttempts == 3 \* MaxAttempts of the small retry configurations

\* -------------------------------------------------------------- constants
OrderIds == {1}                       \* order ids carried by inbound events
Handlers == {1, 2}                    \* concurrent partition-claim handlers
Reqs == {1, 2}                        \* concurrent HTTP requests
Keys == {"", "k1"}                    \* idempotencyKey values of a request
Offsets == 1..MaxMessages             \* offsets of the claimed partition

OrderStatusPending == "PENDING"
OrderStatusPaymentProcessing == "PAYMENT_PROCESSING"
OrderStatusStockReserving == "STOCK_RESERVING"
OrderStatusDeliveryPreparing == "DELIVERY_PREPARING"
OrderStatusCompleted == "COMPLETED"
OrderStatusCanceled == "CANCELED"
OrderStatusFailed == "FAILED"

EventOrderCreated == "order.created.v1"
EventPaymentCompleted == "payment.completed.v1"
EventPaymentFailed == "payment.failed.v1"
EventPaymentRefunded == "payment.refunded.v1"
EventStockReserved == "stock.reserved.v1"
EventStockReservationFailed == "stock.reservation_failed.v1"
EventDeliveryStarted == "delivery.started.v1"
EventDeliveryFailed == "delivery.failed.v1"
EventStockRestored == "stock.restored.v1"

\* topics the Order service subscribes to
OrderTopics ==
  { EventPaymentCompleted, EventPaymentFailed, EventStockReserved,
    EventStockReservationFailed, EventDeliveryStarted, EventDeliveryFailed }

TerminalStatuses == { OrderStatusCompleted, OrderStatusCanceled, OrderStatusFailed }

VARIABLES
  orders,       \* Order DB: orders table, a sequence; the id is the index
  orderOutbox,  \* Order DB: committed outbox_events rows
  orderOutboxSeq, \* Order DB: last value of the outbox id sequence
  req,          \* CreateOrder calls in flight, per request slot
  calls,        \* CreateOrder calls issued so far
  oh,           \* Order service: event handler executions, per handler slot
  orderGate,    \* Order service: keys held by the idempotency store
  orderDelivered, \* messages handed to the Order consumer so far
  lastChange,   \* history: the last committed status change of an order
  payments,     \* Payment DB: payments table, a sequence; the id is the index
  payOutbox,    \* Payment DB: committed outbox_events rows, in commit order
  payOutboxSeq, \* Payment DB: last value of the outbox id sequence
  ph,           \* Payment service: event handler executions, per slot
  payGate,      \* Payment service: keys held by the idempotency store
  payDelivered, \* messages handed to the Payment consumer so far
  clock,        \* readings of time.Now() taken so far
  relay,        \* Payment service: the outbox worker's position
  published,    \* bus: ids of Payment outbox rows, in order of first publish
  inventory,    \* Inventory DB: the committed inventory row of product 1
  reservations, \* Inventory DB: committed stock_reservations rows; id = index
  invOutbox,    \* Inventory DB: committed outbox_events rows
  invLock,      \* Inventory DB: the handler whose tx holds the row lock, or 0
  ih,           \* Inventory service: event handler executions, per slot
  invGate,      \* Inventory service: keys held by the idempotency store
  invDelivered, \* messages handed to the Inventory consumer so far
  deliveries,   \* Delivery DB: committed deliveries rows
  delOutbox,    \* Delivery DB: committed outbox_events rows
  dh,           \* Delivery service: HandleStockReserved calls, per slot
  delDelivered, \* calls of HandleStockReserved made so far
  faulty,       \* whether a database, key-value or bus call can return an error
  consumed,     \* saga: the events each consumer group has been handed
  claim,        \* ConsumeClaim: the loop's position in one partition claim
  running,      \* ConsumeClaim: offsets whose handler call has not returned
  marked,       \* ConsumeClaim: offsets passed to session.MarkMessage
  results,      \* ConsumeClaim: what the handler calls returned, per offset
  main,         \* main: the position of the main goroutine
  stopped,      \* main: the components stopped so far, in order
  intake,       \* main: the consumer group, and the messages it has taken
  inflight,     \* main: messages whose event handler call has not returned
  worker,       \* main: the outbox worker goroutine
  redis,        \* idempotency store: the keys that exist in Redis
  held,         \* history: the reservations granted and not yet ended
  answers,      \* history: what Reserve returned, per service and key
  storeLast,    \* history: the last call of the idempotency store
  retry         \* retry.Do: the state of one call

orderVars ==
  << orders, orderOutbox, orderOutboxSeq, req, calls, oh, orderGate,
     orderDelivered, lastChange >>

payVars ==
  << payments, payOutbox, payOutboxSeq, ph, payGate, payDelivered, clock,
     relay, published >>

invVars ==
  << inventory, reservations, invOutbox, invLock, ih, invGate, invDelivered >>

delVars == << deliveries, delOutbox, dh, delDelivered >>

claimVars == << claim, running, marked, results >>

mainVars == << main, stopped, intake, inflight, worker >>

libVars == << redis, held, answers, storeLast, retry >>

sysVars == << faulty, consumed, claimVars, mainVars, libVars >>

vars == << orderVars, payVars, invVars, delVars, sysVars >>

\* the outcomes of a call that can fail: whether it returns an error
Errors == IF faulty THEN BOOLEAN ELSE {FALSE}

\* ---------------------------------------------------------------- helpers
Indices(s) == 1..Len(s)

NoChange == [oid |-> 0, from |-> "none", to |-> "none", by |-> "none"]

IdleReq ==
  [pc |-> "idle", key |-> "", amount |-> 0, quantity |-> 0, orderId |-> 0,
   tx |-> << >>, result |-> "none", resultId |-> 0]

IdleHandler == [pc |-> "idle", topic |-> "none", oid |-> 0, version |-> 0]

IdlePaymentHandler ==
  [pc |-> "idle", topic |-> "none", oid |-> 0, corr |-> "none", payId |-> 0,
   now |-> 0, tx |-> << >>]

IdleRelay == [pc |-> "idle", batch |-> << >>]

IdleInvHandler ==
  [pc |-> "idle", topic |-> "none", oid |-> 0, corr |-> "none",
   version |-> 0, resId |-> 0,
   qty |-> 0, wrote |-> FALSE, inv |-> << >>, newRes |-> << >>,
   cancel |-> 0, out |-> << >>]

IdleDeliveryHandler ==
  [pc |-> "idle", oid |-> 0, corr |-> "none", newRow |-> << >>, out |-> << >>]

\* handler and request slots are interchangeable: work goes to the first free one
FirstFree(slots, busy) == CHOOSE s \in slots \ busy : \A t \in slots \ busy : s <= t

\* the correlationId CreateOrder generated for an order (one uuid per order),
\* which the inbound events of the order carry
CorrelationID(oid) == << "saga", oid >>

\* the eventId of the one event of a topic that concerns an order
EventID(topic, oid) == << topic, oid >>

\* ------------------------------------------------------- order repository
\* orderRepository.FindByIdempotencyKey: the id of the row with the key, or 0
FindByIdempotencyKey(key) ==
  IF \E i \in Indices(orders) : orders[i].key = key
  THEN CHOOSE i \in Indices(orders) : orders[i].key = key
  ELSE 0

\* orderRepository.FindByID: whether the row exists
FindByID(id) == id \in Indices(orders)

\* the unique partial index on orders.idempotency_key (WHERE ... IS NOT NULL);
\* Create binds the Go string, so every row has a key that is not NULL
OrderKeyTaken(key) == \E i \in Indices(orders) : orders[i].key = key

\* orderRepository.UpdateStatusWithVersion: UPDATE ... WHERE id AND version;
\* the rows after the statement
UpdateStatusWithVersion(id, status, currentVersion) ==
  IF id \in Indices(orders) /\ orders[id].version = currentVersion
  THEN [orders EXCEPT ![id].status = status, ![id].version = @ + 1]
  ELSE orders

\* ------------------------------------------------ HTTPHandler.CreateOrder
\* uuid.New().String() of the n-th request: a key no other request has
UUID(n) == << "uuid-1", "uuid-2", "uuid-3", "uuid-4" >>[n]

\* lines 60-63: a request without an idempotencyKey gets a generated one
RequestKey(key, n) == IF key = "" THEN UUID(n) ELSE key

\* lines 72-83: any error of orderService.CreateOrder is answered with 500
\* Internal Server Error, a result with 201 Created
HTTPStatus(result) ==
  IF result \in {"created", "existing"} THEN 201 ELSE 500

\* --------------------------------------------- orderService.CreateOrder
\* POST /orders with a decodable body, then lines 67-95 of the service: the
\* idempotency lookup, the input validation, BeginTx
CreateOrderStart(r, key, amount, quantity) ==
  /\ req[r].pc \in {"idle", "done"}
  /\ r = FirstFree(Reqs, {q \in Reqs : req[q].pc \notin {"idle", "done"}})
  /\ calls < MaxCalls
  /\ calls' = calls + 1
  /\ \E lookupErr \in Errors, beginErr \in Errors :
       LET existing == FindByIdempotencyKey(key)
           base == [IdleReq EXCEPT !.key = key, !.amount = amount,
                                   !.quantity = quantity]
       IN  req' = [req EXCEPT ![r] =
             IF key # "" /\ ~lookupErr /\ existing # 0
             THEN [base EXCEPT !.pc = "done", !.result = "existing",
                               !.resultId = existing]
             ELSE IF amount <= 0 \/ quantity <= 0
             THEN [base EXCEPT !.pc = "done", !.result = "invalid"]
             ELSE IF beginErr
             THEN [base EXCEPT !.pc = "done", !.result = "error"]
             ELSE [base EXCEPT !.pc = "create"]]
  /\ UNCHANGED << orders, orderOutbox, orderOutboxSeq, oh, orderGate,
                  orderDelivered, lastChange,
                  payVars, invVars, delVars, sysVars >>

\* line 109 with orderRepository.Create: the INSERT runs on the pool (r.db),
\* outside the transaction opened at line 91, and is committed at once; a
\* unique violation (23505) is returned as the error "duplicate idempotency key"
CreateOrderInsert(r) ==
  /\ req[r].pc = "create"
  /\ \E dbErr \in Errors :
       IF dbErr \/ OrderKeyTaken(req[r].key)
       THEN /\ req' = [req EXCEPT ![r].pc = "done",
                 ![r].result = IF dbErr THEN "error" ELSE "duplicate"]
            /\ UNCHANGED orders
       ELSE /\ orders' = Append(orders,
                 [status |-> OrderStatusPending, version |-> 0,
                  key |-> req[r].key])
            /\ req' = [req EXCEPT ![r].pc = "outbox",
                                  ![r].orderId = Len(orders) + 1]
  /\ UNCHANGED << orderOutbox, orderOutboxSeq, calls, oh, orderGate,
                  orderDelivered, lastChange,
                  payVars, invVars, delVars, sysVars >>

\* line 144, outboxRepository.InsertTx: the row is written inside the
\* transaction; an error returns and the deferred Rollback drops it
CreateOrderOutbox(r) ==
  /\ req[r].pc = "outbox"
  /\ \E dbErr \in Errors :
       IF dbErr
       THEN /\ req' = [req EXCEPT ![r].pc = "done", ![r].result = "error"]
            /\ UNCHANGED orderOutboxSeq
       ELSE /\ orderOutboxSeq' = orderOutboxSeq + 1
            /\ req' = [req EXCEPT ![r].pc = "commit",
                 ![r].tx = << [id |-> orderOutboxSeq + 1,
                               aggId |-> req[r].orderId,
                               oid |-> req[r].orderId,
                               type |-> EventOrderCreated,
                               status |-> "PENDING",
                               corr |-> CorrelationID(req[r].orderId)] >>]
  /\ UNCHANGED << orders, orderOutbox, calls, oh, orderGate, orderDelivered,
                  lastChange,
                  payVars, invVars, delVars, sysVars >>

\* line 149, tx.Commit: the buffered outbox row becomes visible, or is lost
CreateOrderCommit(r) ==
  /\ req[r].pc = "commit"
  /\ \E dbErr \in Errors :
       IF dbErr
       THEN /\ req' = [req EXCEPT ![r].pc = "done", ![r].result = "error",
                                  ![r].tx = << >>]
            /\ UNCHANGED orderOutbox
       ELSE /\ orderOutbox' = orderOutbox \o req[r].tx
            /\ req' = [req EXCEPT ![r].pc = "done", ![r].result = "created",
                                  ![r].resultId = req[r].orderId,
                                  ![r].tx = << >>]
  /\ UNCHANGED << orders, orderOutboxSeq, calls, oh, orderGate,
                  orderDelivered, lastChange,
                  payVars, invVars, delVars, sysVars >>

CreateOrder(r) ==
  \/ \E key \in Keys, amount \in {0, 1}, quantity \in {0, 1} :
       CreateOrderStart(r, RequestKey(key, calls + 1), amount, quantity)
  \/ CreateOrderInsert(r)
  \/ CreateOrderOutbox(r)
  \/ CreateOrderCommit(r)

\* ------------------------------------------------------ Order domain model
\* all values of OrderStatus
OrderStatuses ==
  { OrderStatusPending, OrderStatusPaymentProcessing, OrderStatusStockReserving,
    OrderStatusDeliveryPreparing, OrderStatusCompleted, OrderStatusCanceled,
    OrderStatusFailed }

\* Order.CanTransitionTo: the map of allowed next statuses; a status without
\* an entry (COMPLETED, CANCELED, FAILED) allows none
CanTransitionTo(status, newStatus) ==
  CASE status = OrderStatusPending ->
         newStatus \in { OrderStatusPaymentProcessing, OrderStatusCanceled,
                         OrderStatusFailed }
    [] status = OrderStatusPaymentProcessing ->
         newStatus \in { OrderStatusStockReserving, OrderStatusCanceled,
                         OrderStatusFailed }
    [] status = OrderStatusStockReserving ->
         newStatus \in { OrderStatusDeliveryPreparing, OrderStatusCanceled,
                         OrderStatusFailed }
    [] status = OrderStatusDeliveryPreparing ->
         newStatus \in { OrderStatusCompleted, OrderStatusCanceled,
                         OrderStatusFailed }
    [] OTHER -> FALSE

\* ------------------------------------------- Order service event handlers
\* the status an order must have for the handler of a topic to update it:
\* HandlePaymentCompleted, HandleStockReserved and HandleDeliveryStarted test
\* order.Status; HandlePaymentFailed, HandleStockReservationFailed and
\* HandleDeliveryFailed update whatever the status is
HandlerGuard(topic, status) ==
  CASE topic = EventPaymentCompleted -> status = OrderStatusPending
    [] topic = EventStockReserved -> status = OrderStatusStockReserving
    [] topic = EventDeliveryStarted -> status = OrderStatusDeliveryPreparing
    [] topic = EventPaymentFailed -> TRUE
    [] topic = EventStockReservationFailed -> TRUE
    [] topic = EventDeliveryFailed -> TRUE

\* handlers that all write FAILED
HandlerTargetFailed(topic) == OrderStatusFailed

\* the status the handler of a topic writes
HandlerTarget(topic) ==
  CASE topic = EventPaymentCompleted -> OrderStatusStockReserving
    [] topic = EventStockReserved -> OrderStatusDeliveryPreparing
    [] topic = EventDeliveryStarted -> OrderStatusCompleted
    [] topic = EventPaymentFailed -> OrderStatusCanceled
    [] topic = EventStockReservationFailed -> OrderStatusFailed
    [] topic = EventDeliveryFailed -> OrderStatusFailed

\* consumerGroupHandler.ConsumeClaim hands a message to EventHandler.HandleMessage
OrderDeliver(h, topic, oid) ==
  /\ oh[h].pc = "idle"
  /\ h = FirstFree(Handlers, {g \in Handlers : oh[g].pc # "idle"})
  /\ orderDelivered < MaxDeliveries
  /\ orderDelivered' = orderDelivered + 1
  /\ oh' = [oh EXCEPT ![h] = [IdleHandler EXCEPT !.pc = "gate",
                                !.topic = topic, !.oid = oid]]
  /\ UNCHANGED << orders, orderOutbox, orderOutboxSeq, req, calls, orderGate,
                  lastChange,
                  payVars, invVars, delVars, sysVars >>

\* idemStore.IsProcessed; its error is discarded and reads as "not processed"
OrderGateCheck(h) ==
  /\ oh[h].pc = "gate"
  /\ \E redisErr \in Errors :
       IF ~redisErr /\ EventID(oh[h].topic, oh[h].oid) \in orderGate
       THEN oh' = [oh EXCEPT ![h] = IdleHandler]
       ELSE oh' = [oh EXCEPT ![h].pc = "find"]
  /\ UNCHANGED << orders, orderOutbox, orderOutboxSeq, req, calls, orderGate,
                  orderDelivered, lastChange,
                  payVars, invVars, delVars, sysVars >>

\* orderRepo.FindByID and the status test that follows it
OrderFind(h) ==
  /\ oh[h].pc = "find"
  /\ \E dbErr \in Errors :
       IF dbErr \/ ~FindByID(oh[h].oid)
       THEN oh' = [oh EXCEPT ![h] = IdleHandler]
       ELSE LET o == orders[oh[h].oid]
            IN  oh' = [oh EXCEPT
                  ![h].version = o.version,
                  ![h].pc = IF HandlerGuard(oh[h].topic, o.status)
                            THEN "update" ELSE "reserve"]
  /\ UNCHANGED << orders, orderOutbox, orderOutboxSeq, req, calls, orderGate,
                  orderDelivered, lastChange,
                  payVars, invVars, delVars, sysVars >>

\* orderRepo.UpdateStatusWithVersion with the version read by FindByID; the
\* returned bool (rows affected > 0) is discarded by every handler
OrderUpdate(h) ==
  /\ oh[h].pc = "update"
  /\ \E dbErr \in Errors :
       IF dbErr
       THEN /\ oh' = [oh EXCEPT ![h] = IdleHandler]
            /\ UNCHANGED << orders, lastChange >>
       ELSE LET after == UpdateStatusWithVersion(oh[h].oid,
                           HandlerTarget(oh[h].topic), oh[h].version)
            IN  /\ orders' = after
                /\ lastChange' =
                     IF after # orders
                     THEN [oid |-> oh[h].oid,
                           from |-> orders[oh[h].oid].status,
                           to |-> after[oh[h].oid].status,
                           by |-> oh[h].topic]
                     ELSE lastChange
                /\ oh' = [oh EXCEPT ![h].pc = "reserve"]
  /\ UNCHANGED << orderOutbox, orderOutboxSeq, req, calls, orderGate,
                  orderDelivered,
                  payVars, invVars, delVars, sysVars >>

\* idemStore.Reserve after the service call returned nil; its error is discarded
OrderReserve(h) ==
  /\ oh[h].pc = "reserve"
  /\ \E redisErr \in Errors :
       orderGate' = IF redisErr THEN orderGate
                    ELSE orderGate \cup {EventID(oh[h].topic, oh[h].oid)}
  /\ oh' = [oh EXCEPT ![h] = IdleHandler]
  /\ UNCHANGED << orders, orderOutbox, orderOutboxSeq, req, calls,
                  orderDelivered, lastChange,
                  payVars, invVars, delVars, sysVars >>

OrderHandleMessage(h) ==
  \/ \E topic \in OrderTopics, oid \in OrderIds : OrderDeliver(h, topic, oid)
  \/ OrderGateCheck(h)
  \/ OrderFind(h)
  \/ OrderUpdate(h)
  \/ OrderReserve(h)

\* ------------------------------------------------- Order service, complete
OrderInit ==
  /\ orders = << >>
  /\ orderOutbox = << >>
  /\ orderOutboxSeq = 0
  /\ req = [r \in Reqs |-> IdleReq]
  /\ calls = 0
  /\ oh = [h \in Handlers |-> IdleHandler]
  /\ orderGate = {}
  /\ orderDelivered = 0
  /\ lastChange = NoChange

PayInit ==
  /\ payments = << >>
  /\ payOutbox = << >>
  /\ payOutboxSeq = 0
  /\ ph = [h \in Handlers |-> IdlePaymentHandler]
  /\ payGate = {}
  /\ payDelivered = 0
  /\ clock = 0
  /\ relay = IdleRelay
  /\ published = << >>

InvInit ==
  /\ inventory \in { [available |-> a, reserved |-> 0, version |-> 0] :
                       a \in 0..MaxStock }
  /\ reservations = << >>
  /\ invOutbox = << >>
  /\ invLock = 0
  /\ ih = [h \in Handlers |-> IdleInvHandler]
  /\ invGate = {}
  /\ invDelivered = 0

DelInit ==
  /\ deliveries = << >>
  /\ delOutbox = << >>
  /\ dh = [h \in Handlers |-> IdleDeliveryHandler]
  /\ delDelivered = 0

\* ------------------------------------------------------ idempotency store
\* the prefixes the services' main functions pass to NewRedisStore
StorePrefixes == {"order-service", "payment-service", "inventory-service"}

\* the eventId used as key; an event consumed by two services has one eventId
StoreKeys == {"evt-1"}

StoreSlots == StorePrefixes \X StoreKeys

getFullKeyBare(prefix, key) == key

\* RedisStore.getFullKey: fmt.Sprintf("%s:%s", s.prefix, key)
getFullKey(prefix, key) == prefix \o ":" \o key

\* the reservations that are over when a Redis key is gone
EndedBy(fullKey) == {p \in StoreSlots : getFullKey(p[1], p[2]) = fullKey}

StoreOthers ==
  << retry, faulty, consumed, claimVars, mainVars,
     orderVars, payVars, invVars, delVars >>

\* RedisStore.Reserve: SETNX fullKey "1" with a ttl; (false, err) when the
\* call fails, otherwise whether the key was set by this call
Reserve(prefix, key) ==
  /\ Len(answers[<< prefix, key >>]) < MaxReserves
  /\ \E err \in Errors :
       LET fullKey == getFullKey(prefix, key)
           result == ~err /\ fullKey \notin redis
       IN  /\ redis' = IF err THEN redis ELSE redis \cup {fullKey}
           /\ held' = IF result THEN held \cup {<< prefix, key >>} ELSE held
           /\ answers' = IF err THEN answers
                         ELSE [answers EXCEPT ![<< prefix, key >>] =
                                 Append(@, result)]
           /\ storeLast' = [op |-> "Reserve", prefix |-> prefix, key |-> key,
                            ok |-> result, err |-> err]
  /\ UNCHANGED StoreOthers

\* RedisStore.IsProcessed: EXISTS fullKey; (false, err) when the call fails
IsProcessed(prefix, key) ==
  /\ \E err \in Errors :
       storeLast' = [op |-> "IsProcessed", prefix |-> prefix, key |-> key,
                     ok |-> ~err /\ getFullKey(prefix, key) \in redis,
                     err |-> err]
  /\ UNCHANGED << redis, held, answers >>
  /\ UNCHANGED StoreOthers

\* a Redis key is deleted: the reservations on it are over
KeyGone(fullKey) ==
  /\ redis' = redis \ {fullKey}
  /\ held' = held \ EndedBy(fullKey)
  /\ answers' = [p \in StoreSlots |->
                   IF p \in EndedBy(fullKey) THEN << >> ELSE answers[p]]

\* RedisStore.Release: DEL fullKey
Release(prefix, key) ==
  /\ \E err \in Errors :
       /\ IF err THEN UNCHANGED << redis, held, answers >>
          ELSE KeyGone(getFullKey(prefix, key))
       /\ storeLast' = [op |-> "Release", prefix |-> prefix, key |-> key,
                        ok |-> ~err, err |-> err]
  /\ UNCHANGED StoreOthers

\* the ttl given to Reserve runs out and Redis drops the key
Expire(fullKey) ==
  /\ fullKey \in redis
  /\ KeyGone(fullKey)
  /\ storeLast' = [op |-> "Expire", prefix |-> "", key |-> fullKey,
                   ok |-> TRUE, err |-> FALSE]
  /\ UNCHANGED StoreOthers

StoreInit ==
  /\ redis = {}
  /\ held = {}
  /\ answers = [p \in StoreSlots |-> << >>]
  /\ storeLast = [op |-> "none", prefix |-> "", key |-> "", ok |-> FALSE,
                  err |-> FALSE]

StoreNext ==
  \/ \E prefix \in StorePrefixes, key \in StoreKeys :
       \/ Reserve(prefix, key)
       \/ IsProcessed(prefix, key)
       \/ Release(prefix, key)
  \/ \E fullKey \in redis : Expire(fullKey)

\* ------------------------------------------------------------------ retry
\* DefaultConfig; durations in seconds, the coefficient in tenths
DefaultConfig ==
  [MaxAttempts |-> 5, InitialInterval |-> 1, MaxInterval |-> 60,
   BackoffCoefficient |-> 20]

\* the Config values Do is called with: the default one and small ones
Configs ==
  {DefaultConfig} \cup
  [MaxAttempts : 1..MaxRetryAttempts, InitialInterval : {1, 3},
   MaxInterval : {2}, BackoffCoefficient : {15, 20}]

\* what fn returns: nil or one of two errors
FnErrors == {"e1", "e2"}

IdleRetry ==
  [pc |-> "idle", config |-> DefaultConfig, attempt |-> 0, interval |-> 0,
   calls |-> 0, okCalls |-> 0, lastErr |-> "nil", ret |-> "none",
   wrapped |-> "nil", cancelled |-> FALSE, cancelPc |-> "none",
   cancelCalls |-> 0, maxWait |-> 0]

RetryOthers ==
  << redis, held, answers, storeLast, faulty, consumed, claimVars, mainVars,
     orderVars, payVars, invVars, delVars >>

Larger(a, b) == IF a > b THEN a ELSE b

\* lines 73-76: time.Duration(float64(interval) * BackoffCoefficient), then
\* the cap at MaxInterval
NextInterval(interval, config) ==
  LET next == (interval * config.BackoffCoefficient) \div 10
  IN  IF next > config.MaxInterval THEN config.MaxInterval ELSE next

\* Do is called (lines 32-37): the context may be cancelled already
DoStart(config) ==
  /\ retry.pc = "idle"
  /\ \E cancelled \in BOOLEAN :
       retry' = [IdleRetry EXCEPT
                   !.pc = "top", !.config = config, !.attempt = 1,
                   !.interval = config.InitialInterval,
                   !.cancelled = cancelled,
                   !.cancelPc = IF cancelled THEN "top" ELSE "none"]
  /\ UNCHANGED RetryOthers

\* lines 38-46: the context test, then the test of the elapsed time, which
\* has grown by the time fn and the waits took
DoTop ==
  /\ retry.pc = "top"
  /\ IF retry.cancelled
     THEN retry' = [retry EXCEPT !.pc = "done", !.ret = "ctx"]
     ELSE \E exceeded \in {FALSE, retry.attempt > 1} :
            retry' = IF exceeded
                     THEN [retry EXCEPT !.pc = "done", !.ret = "elapsed",
                                        !.wrapped = retry.lastErr]
                     ELSE [retry EXCEPT !.pc = "call"]
  /\ UNCHANGED RetryOthers

\* lines 48-64: fn is called; nil ends Do, an error on the last attempt
\* leaves the loop for the return of line 79
DoCall(err) ==
  /\ retry.pc = "call"
  /\ retry' =
       IF err = "nil"
       THEN [retry EXCEPT !.pc = "done", !.ret = "nil",
                          !.calls = @ + 1, !.okCalls = @ + 1]
       ELSE IF retry.attempt = retry.config.MaxAttempts
       THEN [retry EXCEPT !.pc = "done", !.ret = "attempts",
                          !.calls = @ + 1, !.lastErr = err, !.wrapped = err]
       ELSE [retry EXCEPT !.pc = "wait", !.calls = @ + 1, !.lastErr = err]
  /\ UNCHANGED RetryOthers

\* lines 66-76: time.After(interval) fires, the next interval is computed
\* and the loop goes on with the next attempt
DoTimer ==
  /\ retry.pc = "wait"
  /\ retry' = [retry EXCEPT
                 !.pc = "top", !.attempt = @ + 1,
                 !.maxWait = Larger(@, retry.interval),
                 !.interval = NextInterval(retry.interval, retry.config)]
  /\ UNCHANGED RetryOthers

\* lines 66-68: ctx.Done() is ready in the select
DoCtxDone ==
  /\ retry.pc = "wait" /\ retry.cancelled
  /\ retry' = [retry EXCEPT !.pc = "done", !.ret = "ctx"]
  /\ UNCHANGED RetryOthers

\* the caller cancels the context while Do runs
DoCancel ==
  /\ retry.pc \in {"top", "call", "wait"} /\ ~retry.cancelled
  /\ retry' = [retry EXCEPT !.cancelled = TRUE, !.cancelPc = retry.pc,
                            !.cancelCalls = retry.calls]
  /\ UNCHANGED RetryOthers

RetryInit == retry = IdleRetry

RetryNext ==
  \/ \E config \in Configs : DoStart(config)
  \/ DoTop
  \/ \E err \in {"nil"} \cup FnErrors : DoCall(err)
  \/ DoTimer
  \/ DoCtxDone
  \/ DoCancel

LibInit == StoreInit /\ RetryInit

IdleClaim == [pc |-> "recv", pos |-> 1, sessions |-> 1]

ClaimInit ==
  /\ claim = IdleClaim
  /\ running = {}
  /\ marked = {}
  /\ results = [n \in Offsets |-> << >>]

MainInit ==
  /\ main = "serving"
  /\ stopped = << >>
  /\ intake = [open |-> TRUE, taken |-> 0]
  /\ inflight = {}
  /\ worker = [pc |-> "select", ticks |-> 0, cancelled |-> FALSE]

SysInit ==
  /\ consumed = {}
  /\ ClaimInit
  /\ MainInit
  /\ LibInit

Init ==
  /\ OrderInit /\ PayInit /\ InvInit /\ DelInit /\ SysInit
  /\ faulty = TRUE

\* the event handlers, with orders created by one client
OrderNext ==
  \/ Len(orders) < Cardinality(OrderIds) /\ CreateOrder(1)
  \/ \E h \in Handlers : OrderHandleMessage(h)

OrderSpec == Init /\ [][OrderNext]_vars

\* concurrent CreateOrder requests
CreateNext == \E r \in Reqs : CreateOrder(r)

CreateSpec == Init /\ [][CreateNext]_vars

\* ===================================================== Payment service
\* -------------------------------------------------- payment repository
\* HandleOrderCreated line 244: "payment-<orderId>-<eventId>"
PaymentIdempotencyKey(oid, eventId) == << "payment", oid, eventId >>

\* a payments table in which no row is ever found by its idempotency key
FindPaymentNever(key) == 0

\* paymentRepository.FindByIdempotencyKey: the id of the row, or 0
FindPaymentByIdempotencyKey(key) ==
  IF \E i \in Indices(payments) : payments[i].key = key
  THEN CHOOSE i \in Indices(payments) : payments[i].key = key
  ELSE 0

\* paymentRepository.FindByOrderID: ORDER BY created_at DESC LIMIT 1, or 0
FindByOrderID(oid) ==
  LET rows == { i \in Indices(payments) : payments[i].orderId = oid }
  IN  IF rows = {} THEN 0
      ELSE CHOOSE i \in rows :
             \A j \in rows : payments[j].createdAt <= payments[i].createdAt

\* paymentRepository.UpdateStatus: UPDATE payments SET status WHERE id
PaymentUpdateStatus(id, status) == [payments EXCEPT ![id].status = status]

\* --------------------------------------------------- outbox repository
\* LIMIT of the relay's SELECT
OutboxBatchLimit == 100

\* the row of an outbox with the given id
OutboxRow(outbox, id) ==
  outbox[CHOOSE i \in Indices(outbox) : outbox[i].id = id]

RECURSIVE ByCreatedAt(_, _)
\* the ids of the set ids of rows of outbox, in ascending created_at
ByCreatedAt(outbox, ids) ==
  IF ids = {} THEN << >>
  ELSE LET first == CHOOSE a \in ids :
                      \A b \in ids : OutboxRow(outbox, a).createdAt
                                       <= OutboxRow(outbox, b).createdAt
       IN  << first >> \o ByCreatedAt(outbox, ids \ {first})

\* outboxRepository.FindPending and the relay's SELECT: the ids of the rows
\* WHERE status = 'PENDING' ORDER BY created_at ASC LIMIT limit
FindPending(outbox, limit) ==
  LET all == ByCreatedAt(outbox,
               { outbox[i].id : i \in { j \in Indices(outbox) :
                                          outbox[j].status = "PENDING" } })
  IN  IF Len(all) <= limit THEN all ELSE SubSeq(all, 1, limit)

\* MarkSent with an UPDATE whose WHERE clause matches no row
MarkSentNoMatch(outbox, id) == outbox

\* MarkSent as a DELETE of the published row
MarkSentDelete(outbox, id) ==
  SelectSeq(outbox, LAMBDA row : row.id # id)

\* outboxRepository.MarkSent and the relay's UPDATE: SET status = 'SENT'
\* WHERE id; the rows after the statement
MarkSent(outbox, id) ==
  [i \in Indices(outbox) |->
     IF outbox[i].id = id THEN [outbox[i] EXCEPT !.status = "SENT"]
     ELSE outbox[i]]

\* an outbox row as INSERT INTO outbox_events writes it
NewOutboxRow(id, aggId, oid, type, now, corr) ==
  [id |-> id, aggId |-> aggId, oid |-> oid, type |-> type,
   status |-> "PENDING", createdAt |-> now, corr |-> corr]

\* ------------------------------------------------------ event handlers
PaymentTopics == { EventOrderCreated, EventStockReservationFailed }

\* ConsumeClaim hands a message to the Payment EventHandler.HandleMessage
PaymentDeliver(h, topic, oid) ==
  /\ ph[h].pc = "idle"
  /\ h = FirstFree(Handlers, {g \in Handlers : ph[g].pc # "idle"})
  /\ payDelivered < MaxPayDeliveries
  /\ payDelivered' = payDelivered + 1
  /\ ph' = [ph EXCEPT ![h] = [IdlePaymentHandler EXCEPT !.pc = "gate",
                                !.topic = topic, !.oid = oid,
                                !.corr = CorrelationID(oid)]]
  /\ UNCHANGED << payments, payOutbox, payOutboxSeq, payGate, clock, relay,
                  published,
                  orderVars, invVars, delVars, sysVars >>

\* idemStore.IsProcessed; its error is discarded and reads as "not processed"
PaymentGateCheck(h) ==
  /\ ph[h].pc = "gate"
  /\ \E redisErr \in Errors :
       IF ~redisErr /\ EventID(ph[h].topic, ph[h].oid) \in payGate
       THEN ph' = [ph EXCEPT ![h] = IdlePaymentHandler]
       ELSE ph' = [ph EXCEPT ![h].pc = "find"]
  /\ UNCHANGED << payments, payOutbox, payOutboxSeq, payGate, payDelivered,
                  clock, relay, published,
                  orderVars, invVars, delVars, sysVars >>

\* idemStore.Reserve after the service call returned nil; its error is discarded
PaymentReserve(h) ==
  /\ ph[h].pc = "reserve"
  /\ \E redisErr \in Errors :
       payGate' = IF redisErr THEN payGate
                  ELSE payGate \cup {EventID(ph[h].topic, ph[h].oid)}
  /\ ph' = [ph EXCEPT ![h] = IdlePaymentHandler]
  /\ UNCHANGED << payments, payOutbox, payOutboxSeq, payDelivered, clock,
                  relay, published,
                  orderVars, invVars, delVars, sysVars >>

\* tx.Commit of a handler: the rows written through tx become visible, or the
\* deferred Rollback drops them; ok says where the handler goes after a commit
PaymentCommit(h, pc, ok) ==
  /\ ph[h].pc = pc
  /\ \E dbErr \in Errors :
       IF dbErr
       THEN /\ ph' = [ph EXCEPT ![h] = IdlePaymentHandler]
            /\ UNCHANGED payOutbox
       ELSE /\ payOutbox' = payOutbox \o ph[h].tx
            /\ ph' = [ph EXCEPT ![h] =
                 IF ok = "idle" THEN IdlePaymentHandler
                 ELSE [ph[h] EXCEPT !.pc = ok, !.tx = << >>]]
  /\ UNCHANGED << payments, payOutboxSeq, payGate, payDelivered, clock, relay,
                  published,
                  orderVars, invVars, delVars, sysVars >>

\* outboxRepository.InsertTx of a handler: the row, with the next id of the
\* sequence, is written inside the handler's transaction
PaymentInsertTx(h, pc, aggId, type, now, next) ==
  /\ ph[h].pc = pc
  /\ \E dbErr \in Errors :
       IF dbErr
       THEN /\ ph' = [ph EXCEPT ![h] = IdlePaymentHandler]
            /\ UNCHANGED payOutboxSeq
       ELSE /\ payOutboxSeq' = payOutboxSeq + 1
            /\ ph' = [ph EXCEPT ![h].pc = next, ![h].now = now,
                 ![h].tx = << NewOutboxRow(payOutboxSeq + 1, aggId,
                                           ph[h].oid, type, now, ph[h].corr) >>]

\* paymentService.HandleOrderCreated, lines 243-267: the lookup by idempotency
\* key, BeginTx and processPayment (declined by the gateway or not)
OrderCreatedFind(h) ==
  /\ ph[h].pc = "find" /\ ph[h].topic = EventOrderCreated
  /\ \E lookupErr \in Errors, beginErr \in Errors, declined \in BOOLEAN :
       LET key == PaymentIdempotencyKey(ph[h].oid,
                                        EventID(ph[h].topic, ph[h].oid))
       IN  ph' = [ph EXCEPT ![h] =
             IF ~lookupErr /\ FindPaymentByIdempotencyKey(key) # 0
             THEN [ph[h] EXCEPT !.pc = "reserve"]
             ELSE IF beginErr THEN IdlePaymentHandler
             ELSE IF declined THEN [ph[h] EXCEPT !.pc = "failed"]
             ELSE [ph[h] EXCEPT !.pc = "create"]]
  /\ UNCHANGED << payments, payOutbox, payOutboxSeq, payGate, payDelivered,
                  clock, relay, published,
                  orderVars, invVars, delVars, sysVars >>

\* lines 270-284 with paymentRepository.Create: the INSERT runs on the pool
\* (r.db), outside the transaction of line 256, and is committed at once
OrderCreatedInsert(h) ==
  /\ ph[h].pc = "create"
  /\ clock' = clock + 1
  /\ \E dbErr \in Errors :
       LET key == PaymentIdempotencyKey(ph[h].oid,
                                        EventID(ph[h].topic, ph[h].oid))
       IN  IF dbErr \/ FindPaymentByIdempotencyKey(key) # 0
           THEN /\ ph' = [ph EXCEPT ![h] = IdlePaymentHandler]
                /\ UNCHANGED payments
           ELSE /\ payments' = Append(payments,
                     [orderId |-> ph[h].oid, status |-> "COMPLETED",
                      key |-> key, createdAt |-> clock + 1])
                /\ ph' = [ph EXCEPT ![h].pc = "outbox",
                                    ![h].payId = Len(payments) + 1,
                                    ![h].now = clock + 1]
  /\ UNCHANGED << payOutbox, payOutboxSeq, payGate, payDelivered, relay,
                  published,
                  orderVars, invVars, delVars, sysVars >>

\* lines 286-317: the PaymentCompleted row, InsertTx
OrderCreatedOutbox(h) ==
  /\ PaymentInsertTx(h, "outbox", ph[h].payId, EventPaymentCompleted,
                     ph[h].now, "commit")
  /\ UNCHANGED << payments, payOutbox, payGate, payDelivered, clock, relay,
                  published,
                  orderVars, invVars, delVars, sysVars >>

\* lines 319-329: tx.Commit, return nil
OrderCreatedCommit(h) == PaymentCommit(h, "commit", "reserve")

\* paymentService.publishPaymentFailed, lines 456-485: the PaymentFailed row
\* (aggregate id: the order id), InsertTx
PaymentFailedOutbox(h) ==
  /\ PaymentInsertTx(h, "failed", ph[h].oid, EventPaymentFailed, clock + 1,
                     "failedCommit")
  /\ clock' = clock + 1
  /\ UNCHANGED << payments, payOutbox, payGate, payDelivered, relay,
                  published,
                  orderVars, invVars, delVars, sysVars >>

\* lines 487-495: tx.Commit, then the error "payment failed" is returned, so
\* the event handler does not Reserve
PaymentFailedCommit(h) == PaymentCommit(h, "failedCommit", "idle")

\* paymentService.HandleStockReservationFailed, lines 338-366: FindByOrderID,
\* the REFUNDED test, BeginTx and refundPayment (which always succeeds)
RefundFind(h) ==
  /\ ph[h].pc = "find" /\ ph[h].topic = EventStockReservationFailed
  /\ \E dbErr \in Errors, beginErr \in Errors :
       LET id == FindByOrderID(ph[h].oid)
       IN  ph' = [ph EXCEPT ![h] =
             IF dbErr \/ id = 0 THEN IdlePaymentHandler
             ELSE IF payments[id].status = "REFUNDED"
             THEN [ph[h] EXCEPT !.pc = "reserve"]
             ELSE IF beginErr THEN IdlePaymentHandler
             ELSE [ph[h] EXCEPT !.pc = "refund", !.payId = id]]
  /\ UNCHANGED << payments, payOutbox, payOutboxSeq, payGate, payDelivered,
                  clock, relay, published,
                  orderVars, invVars, delVars, sysVars >>

\* lines 368-371 with paymentRepository.UpdateStatus: the UPDATE runs on the
\* pool (r.db), outside the transaction of line 354, and is committed at once
RefundUpdateStatus(h) ==
  /\ ph[h].pc = "refund"
  /\ \E dbErr \in Errors :
       IF dbErr
       THEN /\ ph' = [ph EXCEPT ![h] = IdlePaymentHandler]
            /\ UNCHANGED payments
       ELSE /\ payments' = PaymentUpdateStatus(ph[h].payId, "REFUNDED")
            /\ ph' = [ph EXCEPT ![h].pc = "refundOutbox"]
  /\ UNCHANGED << payOutbox, payOutboxSeq, payGate, payDelivered, clock,
                  relay, published,
                  orderVars, invVars, delVars, sysVars >>

\* lines 373-404: the PaymentRefunded row, InsertTx
RefundOutbox(h) ==
  /\ PaymentInsertTx(h, "refundOutbox", ph[h].payId, EventPaymentRefunded,
                     clock + 1, "refundCommit")
  /\ clock' = clock + 1
  /\ UNCHANGED << payments, payOutbox, payGate, payDelivered, relay,
                  published,
                  orderVars, invVars, delVars, sysVars >>

\* lines 406-415: tx.Commit, return nil
RefundCommit(h) == PaymentCommit(h, "refundCommit", "reserve")

PaymentHandleMessage(h) ==
  \/ \E topic \in PaymentTopics, oid \in OrderIds : PaymentDeliver(h, topic, oid)
  \/ PaymentGateCheck(h)
  \/ OrderCreatedFind(h)
  \/ OrderCreatedInsert(h)
  \/ OrderCreatedOutbox(h)
  \/ OrderCreatedCommit(h)
  \/ PaymentFailedOutbox(h)
  \/ PaymentFailedCommit(h)
  \/ RefundFind(h)
  \/ RefundUpdateStatus(h)
  \/ RefundOutbox(h)
  \/ RefundCommit(h)
  \/ PaymentReserve(h)

\* ------------------------------------------- startOutboxWorker (Payment)
\* a tick: the SELECT of the PENDING rows; on its error the tick is skipped
RelayTick ==
  /\ relay.pc = "idle"
  /\ \E dbErr \in Errors :
       LET batch == IF dbErr THEN << >>
                    ELSE FindPending(payOutbox, OutboxBatchLimit)
       IN  relay' = IF batch = << >> THEN IdleRelay
                    ELSE [pc |-> "publish", batch |-> batch]
  /\ UNCHANGED << payments, payOutbox, payOutboxSeq, ph, payGate,
                  payDelivered, clock, published,
                  orderVars, invVars, delVars, sysVars >>

\* the relay after it is done with the first row of its batch
RelayAdvance ==
  IF Len(relay.batch) = 1 THEN IdleRelay
  ELSE [pc |-> "publish", batch |-> Tail(relay.batch)]

\* the bus after a successful publish of the row id
Publish(id) ==
  IF \E i \in Indices(published) : published[i] = id
  THEN published ELSE Append(published, id)

\* publisher.Publish of the first row of the batch succeeded: go on to mark it
RelayPublishOk(id) ==
  /\ relay.pc = "publish" /\ Head(relay.batch) = id
  /\ published' = Publish(id)
  /\ relay' = [relay EXCEPT !.pc = "mark"]
  /\ UNCHANGED << payments, payOutbox, payOutboxSeq, ph, payGate,
                  payDelivered, clock,
                  orderVars, invVars, delVars, sysVars >>

\* a failed publish without the "continue": the relay goes on to mark the row
RelayPublishFailNoContinue ==
  /\ relay.pc = "publish"
  /\ relay' = [relay EXCEPT !.pc = "mark"]
  /\ UNCHANGED << payments, payOutbox, payOutboxSeq, ph, payGate,
                  payDelivered, clock, published,
                  orderVars, invVars, delVars, sysVars >>

\* publisher.Publish failed: "continue" with the next row of the batch
RelayPublishFail ==
  /\ relay.pc = "publish"
  /\ relay' = RelayAdvance
  /\ UNCHANGED << payments, payOutbox, payOutboxSeq, ph, payGate,
                  payDelivered, clock, published,
                  orderVars, invVars, delVars, sysVars >>

\* the UPDATE ... SET status = 'SENT' of the published row was executed
RelayMarkOk(id) ==
  /\ relay.pc = "mark" /\ Head(relay.batch) = id
  /\ payOutbox' = MarkSent(payOutbox, id)
  /\ relay' = RelayAdvance
  /\ UNCHANGED << payments, payOutboxSeq, ph, payGate, payDelivered, clock,
                  published,
                  orderVars, invVars, delVars, sysVars >>

\* the UPDATE failed; its error is discarded and the row stays PENDING
RelayMarkFail ==
  /\ relay.pc = "mark"
  /\ relay' = RelayAdvance
  /\ UNCHANGED << payments, payOutbox, payOutboxSeq, ph, payGate,
                  payDelivered, clock, published,
                  orderVars, invVars, delVars, sysVars >>

\* ids the Payment outbox sequence can hand out
PayOutboxIds == 1..MaxPayDeliveries

startOutboxWorker ==
  \/ RelayTick
  \/ \E id \in PayOutboxIds : RelayPublishOk(id)
  \/ RelayPublishFail
  \/ \E id \in PayOutboxIds : RelayMarkOk(id)
  \/ RelayMarkFail

PayNext ==
  \/ \E h \in Handlers : PaymentHandleMessage(h)
  \/ startOutboxWorker

PaySpec == Init /\ [][PayNext]_vars

\* the Payment service from the moment it has handled the OrderCreated event
\* of order 1 with a payment that was not declined: the COMPLETED payment row,
\* its PaymentCompleted outbox row and the reserved eventId
RefundInit ==
  /\ OrderInit /\ InvInit /\ DelInit /\ SysInit
  /\ faulty = TRUE
  /\ payments =
       << [orderId |-> 1, status |-> "COMPLETED",
           key |-> PaymentIdempotencyKey(1, EventID(EventOrderCreated, 1)),
           createdAt |-> 1] >>
  /\ payOutbox =
       << NewOutboxRow(1, 1, 1, EventPaymentCompleted, 1, CorrelationID(1)) >>
  /\ payOutboxSeq = 1
  /\ ph = [h \in Handlers |-> IdlePaymentHandler]
  /\ payGate = {EventID(EventOrderCreated, 1)}
  /\ payDelivered = 0
  /\ clock = 1
  /\ relay = IdleRelay
  /\ published = << >>

\* the handling of the StockReservationFailed event of an order, delivered
\* any number of times to overlapping handlers
HandleStockReservationFailed(h) ==
  \/ \E oid \in OrderIds : PaymentDeliver(h, EventStockReservationFailed, oid)
  \/ PaymentGateCheck(h)
  \/ RefundFind(h)
  \/ RefundUpdateStatus(h)
  \/ RefundOutbox(h)
  \/ RefundCommit(h)
  \/ PaymentReserve(h)

RefundNext == \E h \in Handlers : HandleStockReservationFailed(h)

RefundSpec == RefundInit /\ [][RefundNext]_vars

\* a live relay: the worker's loop keeps running, and for every row a publish
\* that is tried again and again succeeds, and so does the UPDATE that marks it
LiveRelay ==
  /\ WF_vars(startOutboxWorker)
  /\ \A id \in PayOutboxIds :
       SF_vars(RelayPublishOk(id)) /\ SF_vars(RelayMarkOk(id))

\* the Payment service with one partition claim (its handler executions are
\* sequential) and a live relay
PayLiveNext ==
  \/ PaymentHandleMessage(1)
  \/ startOutboxWorker

PayLiveSpec == Init /\ [][PayLiveNext]_vars /\ LiveRelay

\* =================================================== Inventory service
\* orders whose events reach the Inventory consumer
InvOrderIds == {1, 2}

\* HandlePaymentCompleted: quantity := 1 (of productID := 1)
ReserveQuantity == 1

\* HandlePaymentCompleted line 41: "stock-reservation-<orderId>-<eventId>"
ReservationIdempotencyKey(oid, eventId) == << "stock-reservation", oid, eventId >>

\* a stock_reservations table in which no row is found by its idempotency key
FindReservationNever(key) == 0

\* SELECT id FROM stock_reservations WHERE idempotency_key = $1: the id, or 0
FindReservationByKey(key) ==
  IF \E i \in Indices(reservations) : reservations[i].key = key
  THEN CHOOSE i \in Indices(reservations) : reservations[i].key = key
  ELSE 0

\* SELECT ... FROM stock_reservations WHERE order_id = $1 AND status =
\* 'RESERVED': the id of the first such row, or 0
FindReserved(oid) ==
  IF \E i \in Indices(reservations) :
       reservations[i].orderId = oid /\ reservations[i].status = "RESERVED"
  THEN CHOOSE i \in Indices(reservations) :
         /\ reservations[i].orderId = oid /\ reservations[i].status = "RESERVED"
         /\ \A j \in Indices(reservations) :
              (reservations[j].orderId = oid /\ reservations[j].status = "RESERVED")
                => i <= j
  ELSE 0

\* lines 80-87: SET available_quantity = available_quantity - $1,
\* reserved_quantity = reserved_quantity + $1, version = version + 1
ReserveStock(inv, q) ==
  [available |-> inv.available - q, reserved |-> inv.reserved + q,
   version |-> inv.version + 1]

\* a restore that gives the quantity back without taking it from reserved
RestoreStockAvailableOnly(inv, q) ==
  [available |-> inv.available + q, reserved |-> inv.reserved,
   version |-> inv.version + 1]

\* lines 175-182: SET available_quantity = available_quantity + $1,
\* reserved_quantity = reserved_quantity - $1, version = version + 1
RestoreStock(inv, q) ==
  [available |-> inv.available + q, reserved |-> inv.reserved - q,
   version |-> inv.version + 1]

\* a handler returns with an error: the deferred tx.Rollback drops what its
\* transaction wrote and releases the row lock it holds
InvRollback(h) ==
  /\ ih' = [ih EXCEPT ![h] = IdleInvHandler]
  /\ invLock' = IF invLock = h THEN 0 ELSE invLock

\* the Inventory event handler of main: a message is handed to it
InvDeliver(h, topic, oid) ==
  /\ ih[h].pc = "idle"
  /\ h = FirstFree(Handlers, {g \in Handlers : ih[g].pc # "idle"})
  /\ invDelivered < MaxInvDeliveries
  /\ invDelivered' = invDelivered + 1
  /\ ih' = [ih EXCEPT ![h] = [IdleInvHandler EXCEPT !.pc = "gate",
                                !.topic = topic, !.oid = oid,
                                !.corr = CorrelationID(oid)]]
  /\ UNCHANGED << inventory, reservations, invOutbox, invLock, invGate,
                  orderVars, payVars, delVars, sysVars >>

\* idemStore.IsProcessed; its error is discarded and reads as "not processed"
InvGateCheck(h) ==
  /\ ih[h].pc = "gate"
  /\ \E redisErr \in Errors :
       IF ~redisErr /\ EventID(ih[h].topic, ih[h].oid) \in invGate
       THEN ih' = [ih EXCEPT ![h] = IdleInvHandler]
       ELSE ih' = [ih EXCEPT ![h].pc = "find"]
  /\ UNCHANGED << inventory, reservations, invOutbox, invLock, invGate,
                  invDelivered,
                  orderVars, payVars, delVars, sysVars >>

\* idemStore.Reserve after the service call returned nil; its error is discarded
InvReserveGate(h) ==
  /\ ih[h].pc = "reserve"
  /\ \E redisErr \in Errors :
       invGate' = IF redisErr THEN invGate
                  ELSE invGate \cup {EventID(ih[h].topic, ih[h].oid)}
  /\ ih' = [ih EXCEPT ![h] = IdleInvHandler]
  /\ UNCHANGED << inventory, reservations, invOutbox, invLock, invDelivered,
                  orderVars, payVars, delVars, sysVars >>

\* ------------------------------- inventoryService.HandlePaymentCompleted
\* lines 40-59: the pre-check by idempotency key on the pool and BeginTx
ReserveFind(h) ==
  /\ ih[h].pc = "find" /\ ih[h].topic = EventPaymentCompleted
  /\ \E lookupErr \in Errors, beginErr \in Errors :
       LET key == ReservationIdempotencyKey(ih[h].oid,
                                            EventID(ih[h].topic, ih[h].oid))
       IN  ih' = [ih EXCEPT ![h] =
             IF ~lookupErr /\ FindReservationByKey(key) # 0
             THEN [ih[h] EXCEPT !.pc = "reserve"]
             ELSE IF beginErr THEN IdleInvHandler
             ELSE [ih[h] EXCEPT !.pc = "lock"]]
  /\ UNCHANGED << inventory, reservations, invOutbox, invLock, invGate,
                  invDelivered,
                  orderVars, payVars, delVars, sysVars >>

\* a stock test that lets every reservation through
InsufficientStockNever(inv, q) == FALSE

\* lines 74-78: if availableQty < quantity, "insufficient stock"
InsufficientStock(inv, q) == inv.available < q

\* lines 65-78: SELECT ... FOR UPDATE waits for the row lock, reads the
\* committed row and keeps the lock; "insufficient stock" goes on to
\* publishStockReservationFailed.  A failed statement leaves the transaction
\* aborted, so the outbox insert of publishStockReservationFailed fails too and
\* the handler returns an error.
ReserveLock(h) ==
  /\ ih[h].pc = "lock"
  /\ invLock = 0
  /\ \E dbErr \in Errors :
       IF dbErr
       THEN /\ ih' = [ih EXCEPT ![h] = IdleInvHandler]
            /\ UNCHANGED invLock
       ELSE /\ invLock' = h
            /\ ih' = [ih EXCEPT ![h].version = inventory.version,
                 ![h].pc = IF InsufficientStock(inventory, ReserveQuantity)
                           THEN "failed" ELSE "update"]
  /\ UNCHANGED << inventory, reservations, invOutbox, invGate, invDelivered,
                  orderVars, payVars, delVars, sysVars >>

\* lines 80-96: UPDATE inventory ... WHERE product_id AND version, inside the
\* transaction; 0 rows affected goes on to publishStockReservationFailed
ReserveUpdate(h) ==
  /\ ih[h].pc = "update"
  /\ \E dbErr \in Errors :
       IF dbErr THEN InvRollback(h)
       ELSE /\ UNCHANGED invLock
            /\ ih' = [ih EXCEPT ![h] =
                 IF inventory.version # ih[h].version
                 THEN [ih[h] EXCEPT !.pc = "failed"]
                 ELSE [ih[h] EXCEPT !.pc = "insert", !.wrote = TRUE,
                        !.inv = ReserveStock(inventory, ReserveQuantity)]]
  /\ UNCHANGED << inventory, reservations, invOutbox, invGate, invDelivered,
                  orderVars, payVars, delVars, sysVars >>

\* lines 98-108: INSERT INTO stock_reservations inside the transaction; the
\* UNIQUE idempotency_key makes a second row with the key fail
ReserveInsert(h) ==
  /\ ih[h].pc = "insert"
  /\ \E dbErr \in Errors :
       LET key == ReservationIdempotencyKey(ih[h].oid,
                                            EventID(ih[h].topic, ih[h].oid))
       IN  IF dbErr \/ FindReservationByKey(key) # 0
           THEN InvRollback(h)
           ELSE /\ UNCHANGED invLock
                /\ ih' = [ih EXCEPT ![h].pc = "outbox",
                     ![h].newRes = << [orderId |-> ih[h].oid,
                                       qty |-> ReserveQuantity,
                                       status |-> "RESERVED", key |-> key] >>]
  /\ UNCHANGED << inventory, reservations, invOutbox, invGate, invDelivered,
                  orderVars, payVars, delVars, sysVars >>

\* an outbox row whose event gets a correlationId of its own (that of no order)
InvOutboxRowNewCorrelation(aggId, oid, type, corr) ==
  [aggId |-> aggId, oid |-> oid, type |-> type, status |-> "PENDING",
   corr |-> CorrelationID(0)]

\* the outbox row of an event of the Inventory service: BaseEvent.CorrelationID
\* is evt.CorrelationID of the event being handled
InvOutboxRow(aggId, oid, type, corr) ==
  [aggId |-> aggId, oid |-> oid, type |-> type, status |-> "PENDING",
   corr |-> corr]

\* an INSERT INTO outbox_events inside the handler's transaction
InvInsertOutbox(h, pc, aggId, type, next) ==
  /\ ih[h].pc = pc
  /\ \E dbErr \in Errors :
       IF dbErr THEN InvRollback(h)
       ELSE /\ UNCHANGED invLock
            /\ ih' = [ih EXCEPT ![h].pc = next,
                 ![h].out = << InvOutboxRow(aggId, ih[h].oid, type,
                                            ih[h].corr) >>]
  /\ UNCHANGED << inventory, reservations, invOutbox, invGate, invDelivered,
                  orderVars, payVars, delVars, sysVars >>

\* tx.Commit of a handler: what the transaction wrote becomes visible and the
\* row lock is released, or the deferred Rollback drops it; ok is the
\* handler's position after a commit
InvCommit(h, pc, ok) ==
  /\ ih[h].pc = pc
  /\ invLock' = IF invLock = h THEN 0 ELSE invLock
  /\ \E dbErr \in Errors :
       IF dbErr
       THEN /\ ih' = [ih EXCEPT ![h] = IdleInvHandler]
            /\ UNCHANGED << inventory, reservations, invOutbox >>
       ELSE /\ inventory' = IF ih[h].wrote THEN ih[h].inv ELSE inventory
            /\ reservations' =
                 [i \in Indices(reservations) |->
                    IF i = ih[h].cancel
                    THEN [reservations[i] EXCEPT !.status = "CANCELED"]
                    ELSE reservations[i]] \o ih[h].newRes
            /\ invOutbox' = invOutbox \o ih[h].out
            /\ ih' = [ih EXCEPT ![h] =
                 IF ok = "idle" THEN IdleInvHandler
                 ELSE [IdleInvHandler EXCEPT !.pc = ok, !.topic = ih[h].topic,
                                             !.oid = ih[h].oid,
                                             !.corr = ih[h].corr]]
  /\ UNCHANGED << invGate, invDelivered,
                  orderVars, payVars, delVars, sysVars >>

\* lines 110-133: the StockReserved row; the aggregate id is the id the
\* reservation row gets
ReserveOutbox(h) ==
  InvInsertOutbox(h, "outbox", Len(reservations) + 1, EventStockReserved, "commit")

\* lines 135-145: tx.Commit, return nil
ReserveCommit(h) == InvCommit(h, "commit", "reserve")

\* publishStockReservationFailed, lines 243-264: the StockReservationFailed row
\* (aggregate id: the order id)
ReserveFailedOutbox(h) ==
  InvInsertOutbox(h, "failed", ih[h].oid, EventStockReservationFailed,
                  "failedCommit")

\* lines 266-275: tx.Commit, then the error "stock reservation failed" is
\* returned, so the event handler does not Reserve
ReserveFailedCommit(h) == InvCommit(h, "failedCommit", "idle")

\* -------------------------------- inventoryService.HandlePaymentRefunded
\* lines 153-172: the RESERVED reservation of the order is read on the pool;
\* an error or no row returns nil ("already restored"); then BeginTx
RestoreFind(h) ==
  /\ ih[h].pc = "find" /\ ih[h].topic = EventPaymentRefunded
  /\ \E dbErr \in Errors, beginErr \in Errors :
       LET id == FindReserved(ih[h].oid)
       IN  ih' = [ih EXCEPT ![h] =
             IF dbErr \/ id = 0 THEN [ih[h] EXCEPT !.pc = "reserve"]
             ELSE IF beginErr THEN IdleInvHandler
             ELSE [ih[h] EXCEPT !.pc = "restore", !.resId = id,
                                !.qty = reservations[id].qty]]
  /\ UNCHANGED << inventory, reservations, invOutbox, invLock, invGate,
                  invDelivered,
                  orderVars, payVars, delVars, sysVars >>

\* lines 174-186: UPDATE inventory SET available + q, reserved - q WHERE
\* product_id; the statement waits for the row lock and works on the committed
\* row; there is no test of the reservation's status inside the transaction
RestoreUpdate(h) ==
  /\ ih[h].pc = "restore"
  /\ invLock = 0
  /\ \E dbErr \in Errors :
       IF dbErr
       THEN /\ ih' = [ih EXCEPT ![h] = IdleInvHandler]
            /\ UNCHANGED invLock
       ELSE /\ invLock' = h
            /\ ih' = [ih EXCEPT ![h].pc = "cancel", ![h].wrote = TRUE,
                 ![h].inv = RestoreStock(inventory, ih[h].qty)]
  /\ UNCHANGED << inventory, reservations, invOutbox, invGate, invDelivered,
                  orderVars, payVars, delVars, sysVars >>

\* lines 188-197: UPDATE stock_reservations SET status = 'CANCELED' WHERE id
RestoreCancel(h) ==
  /\ ih[h].pc = "cancel"
  /\ \E dbErr \in Errors :
       IF dbErr THEN InvRollback(h)
       ELSE /\ UNCHANGED invLock
            /\ ih' = [ih EXCEPT ![h].pc = "restored", ![h].cancel = ih[h].resId]
  /\ UNCHANGED << inventory, reservations, invOutbox, invGate, invDelivered,
                  orderVars, payVars, delVars, sysVars >>

\* lines 199-224: the StockRestored row
RestoreOutbox(h) ==
  InvInsertOutbox(h, "restored", ih[h].resId, EventStockRestored, "restoreCommit")

\* lines 226-233: tx.Commit, return nil
RestoreCommit(h) == InvCommit(h, "restoreCommit", "reserve")

\* topics the Inventory service subscribes to
InvTopics == { EventPaymentCompleted, EventPaymentRefunded }

InvHandleMessage(h) ==
  \/ \E topic \in InvTopics, oid \in InvOrderIds : InvDeliver(h, topic, oid)
  \/ InvGateCheck(h)
  \/ ReserveFind(h)
  \/ ReserveLock(h)
  \/ ReserveUpdate(h)
  \/ ReserveInsert(h)
  \/ ReserveOutbox(h)
  \/ ReserveCommit(h)
  \/ ReserveFailedOutbox(h)
  \/ ReserveFailedCommit(h)
  \/ RestoreFind(h)
  \/ RestoreUpdate(h)
  \/ RestoreCancel(h)
  \/ RestoreOutbox(h)
  \/ RestoreCommit(h)
  \/ InvReserveGate(h)

InvNext == \E h \in Handlers : InvHandleMessage(h)

InvSpec == Init /\ [][InvNext]_vars

\* ==================================================== Delivery service
\* orders whose StockReserved event reaches the Delivery service
DelOrderIds == {1, 2}

\* HandleStockReserved line 40: "delivery-<orderId>-<eventId>"
DeliveryIdempotencyKey(oid, eventId) == << "delivery", oid, eventId >>

\* the key of the delivery row a call is about
DeliveryKey(h) ==
  DeliveryIdempotencyKey(dh[h].oid, EventID(EventStockReserved, dh[h].oid))

\* a deliveries table without the UNIQUE index and without the pre-check
DeliveryKeyNeverCommitted(key) == FALSE

\* SELECT id FROM deliveries WHERE idempotency_key = $1 finds a committed row
DeliveryKeyCommitted(key) == \E i \in Indices(deliveries) : deliveries[i].key = key

\* another open transaction has inserted a row with the key and not yet ended
DeliveryKeyPending(h, key) ==
  \E g \in Handlers \ {h} : dh[g].newRow # << >> /\ dh[g].newRow[1].key = key

\* HandleStockReserved is called with the StockReserved event of an order
DeliveryDeliver(h, oid) ==
  /\ dh[h].pc = "idle"
  /\ h = FirstFree(Handlers, {g \in Handlers : dh[g].pc # "idle"})
  /\ delDelivered < MaxDelCalls
  /\ delDelivered' = delDelivered + 1
  /\ dh' = [dh EXCEPT ![h] = [IdleDeliveryHandler EXCEPT !.pc = "find",
                                !.oid = oid, !.corr = CorrelationID(oid)]]
  /\ UNCHANGED << deliveries, delOutbox,
                  orderVars, payVars, invVars, sysVars >>

\* lines 39-58: the pre-check by idempotency key on the pool and BeginTx
DeliveryFind(h) ==
  /\ dh[h].pc = "find"
  /\ \E lookupErr \in Errors, beginErr \in Errors :
       dh' = [dh EXCEPT ![h] =
         IF ~lookupErr /\ DeliveryKeyCommitted(DeliveryKey(h))
         THEN IdleDeliveryHandler
         ELSE IF beginErr THEN IdleDeliveryHandler
         ELSE [dh[h] EXCEPT !.pc = "insert"]]
  /\ UNCHANGED << deliveries, delOutbox, delDelivered,
                  orderVars, payVars, invVars, sysVars >>

\* lines 60-73: INSERT INTO deliveries inside the transaction.  The UNIQUE
\* idempotency_key index makes the statement wait while another transaction
\* holds an uncommitted row with the key, and fail once such a row is committed.
DeliveryInsert(h) ==
  /\ dh[h].pc = "insert"
  /\ ~DeliveryKeyPending(h, DeliveryKey(h))
  /\ \E dbErr \in Errors :
       dh' = [dh EXCEPT ![h] =
         IF dbErr \/ DeliveryKeyCommitted(DeliveryKey(h))
         THEN IdleDeliveryHandler
         ELSE [dh[h] EXCEPT !.pc = "outbox",
                 !.newRow = << [orderId |-> dh[h].oid, status |-> "PREPARING",
                                key |-> DeliveryKey(h)] >>]]
  /\ UNCHANGED << deliveries, delOutbox, delDelivered,
                  orderVars, payVars, invVars, sysVars >>

\* lines 75-98: the DeliveryStarted row, INSERT INTO outbox_events
DeliveryOutbox(h) ==
  /\ dh[h].pc = "outbox"
  /\ \E dbErr \in Errors :
       dh' = [dh EXCEPT ![h] =
         IF dbErr THEN IdleDeliveryHandler
         ELSE [dh[h] EXCEPT !.pc = "commit",
                 !.out = << [oid |-> dh[h].oid, type |-> EventDeliveryStarted,
                             status |-> "PENDING", corr |-> dh[h].corr] >>]]
  /\ UNCHANGED << deliveries, delOutbox, delDelivered,
                  orderVars, payVars, invVars, sysVars >>

\* lines 100-111: tx.Commit, or the deferred Rollback
DeliveryCommit(h) ==
  /\ dh[h].pc = "commit"
  /\ \E dbErr \in Errors :
       IF dbErr
       THEN UNCHANGED << deliveries, delOutbox >>
       ELSE /\ deliveries' = deliveries \o dh[h].newRow
            /\ delOutbox' = delOutbox \o dh[h].out
  /\ dh' = [dh EXCEPT ![h] = IdleDeliveryHandler]
  /\ UNCHANGED << delDelivered,
                  orderVars, payVars, invVars, sysVars >>

HandleStockReserved(h) ==
  \/ \E oid \in DelOrderIds : DeliveryDeliver(h, oid)
  \/ DeliveryFind(h)
  \/ DeliveryInsert(h)
  \/ DeliveryOutbox(h)
  \/ DeliveryCommit(h)

DelNext == \E h \in Handlers : HandleStockReserved(h)

DelSpec == Init /\ [][DelNext]_vars

\* ============================== consumerGroupHandler.ConsumeClaim
\* the offset a session's claim starts at: the one after the last marked
\* offset, or the oldest (Consumer.Offsets.Initial) when none is marked
CommittedOffset ==
  IF marked = {} THEN 1
  ELSE 1 + CHOOSE n \in marked : \A m \in marked : m <= n

\* a handler started in a goroutine of its own: the loop goes on at once
HandlerCallAsync(n) ==
  /\ running' = running \cup {n}
  /\ claim' = [claim EXCEPT !.pc = "mark"]

\* line 176: h.consumer.handler(session.Context(), msg) is called in the loop's
\* own goroutine, which waits for it to return
HandlerCall(n) ==
  /\ running' = running \cup {n}
  /\ claim' = [claim EXCEPT !.pc = "wait"]

\* lines 161-176: the next message of claim.Messages() is received and the
\* handler is called with it
ClaimReceive(n) ==
  /\ claim.pc = "recv" /\ claim.pos = n
  /\ HandlerCall(n)
  /\ UNCHANGED << marked, results, faulty, libVars, consumed, mainVars,
                  orderVars, payVars, invVars, delVars >>

\* the handler call of line 176 returns nil or an error
HandlerReturn(n, err) ==
  /\ n \in running
  /\ running' = running \ {n}
  /\ results' = [results EXCEPT ![n] = Append(@, IF err THEN "error" ELSE "nil")]
  /\ claim' = IF claim.pc = "wait" THEN [claim EXCEPT !.pc = "mark"] ELSE claim
  /\ UNCHANGED << marked, faulty, libVars, consumed, mainVars,
                  orderVars, payVars, invVars, delVars >>

\* lines 176-184: an error of the handler is logged, and with or without it
\* session.MarkMessage(message, "") is called; then the loop takes the next
\* message
MarkMessage(n) ==
  /\ claim.pc = "mark" /\ claim.pos = n
  /\ marked' = marked \cup {n}
  /\ claim' = [claim EXCEPT !.pc = "recv", !.pos = n + 1]
  /\ UNCHANGED << running, results, faulty, libVars, consumed, mainVars,
                  orderVars, payVars, invVars, delVars >>

\* the session ends (the process stops or the group rebalances, and with it
\* the handler call in flight); the claim of the next session starts at the
\* committed offset
ClaimRestart ==
  /\ claim.sessions < MaxSessions
  /\ claim' = [pc |-> "recv", pos |-> CommittedOffset,
               sessions |-> claim.sessions + 1]
  /\ running' = {}
  /\ UNCHANGED << marked, results, faulty, libVars, consumed, mainVars,
                  orderVars, payVars, invVars, delVars >>

ConsumeClaim ==
  \/ \E n \in Offsets : ClaimReceive(n)
  \/ \E n \in Offsets, err \in BOOLEAN : HandlerReturn(n, err)
  \/ \E n \in Offsets : MarkMessage(n)
  \/ ClaimRestart

ConsumeSpec == Init /\ [][ConsumeClaim]_vars

\* ================================================ main: shutdown
\* main moves from one position to the next and records what it stopped
MainStep(from, to, what) ==
  /\ main = from
  /\ main' = to
  /\ stopped' = stopped \o what

\* lines 136-138: <-quit returns on SIGINT or SIGTERM
Signal ==
  /\ MainStep("serving", "shutdown", << >>)
  /\ UNCHANGED << intake, inflight, worker, faulty, libVars, consumed, claimVars,
                  orderVars, payVars, invVars, delVars >>

\* lines 142-147: server.Shutdown stops the HTTP server
ServerShutdown ==
  /\ MainStep("shutdown", "cancel", << "http" >>)
  /\ UNCHANGED << intake, inflight, worker, faulty, libVars, consumed, claimVars,
                  orderVars, payVars, invVars, delVars >>

\* line 149: cancel() cancels the context of the outbox worker; main does not
\* wait for the worker to return
CancelWorker ==
  /\ MainStep("cancel", "deferConsumer", << "relay" >>)
  /\ worker' = [worker EXCEPT !.cancelled = TRUE]
  /\ UNCHANGED << intake, inflight, faulty, libVars, consumed, claimVars,
                  orderVars, payVars, invVars, delVars >>

\* main returns and its deferred calls run, last deferred first: the second
\* cancel() and shutdownCancel() do nothing; line 91, consumer.Close(): the
\* consumer group stops handing out messages ...
ConsumerCloseIntake ==
  /\ MainStep("deferConsumer", "drain", << "intake" >>)
  /\ intake' = [intake EXCEPT !.open = FALSE]
  /\ UNCHANGED << inflight, worker, faulty, libVars, consumed, claimVars,
                  orderVars, payVars, invVars, delVars >>

\* ... and Close returns when the ConsumeClaim calls have returned
ConsumerCloseDrained ==
  /\ inflight = {}
  /\ MainStep("drain", "deferPublisher", << "drained" >>)
  /\ UNCHANGED << intake, inflight, worker, faulty, libVars, consumed, claimVars,
                  orderVars, payVars, invVars, delVars >>

\* line 70: defer publisher.Close()
PublisherClose ==
  /\ MainStep("deferPublisher", "deferRedis", << "publisher" >>)
  /\ UNCHANGED << intake, inflight, worker, faulty, libVars, consumed, claimVars,
                  orderVars, payVars, invVars, delVars >>

\* line 58: defer redisClient.Close()
RedisClose ==
  /\ MainStep("deferRedis", "deferDB", << "redis" >>)
  /\ UNCHANGED << intake, inflight, worker, faulty, libVars, consumed, claimVars,
                  orderVars, payVars, invVars, delVars >>

\* line 43: defer db.Close(); then main has returned
DBClose ==
  /\ MainStep("deferDB", "exited", << "db" >>)
  /\ UNCHANGED << intake, inflight, worker, faulty, libVars, consumed, claimVars,
                  orderVars, payVars, invVars, delVars >>

\* the consumer group hands a message to ConsumeClaim, which calls the handler
HandlerStart ==
  /\ main # "exited"
  /\ intake.open /\ intake.taken < MaxMessages
  /\ intake' = [intake EXCEPT !.taken = @ + 1]
  /\ inflight' = inflight \cup {intake.taken + 1}
  /\ UNCHANGED << main, stopped, worker, faulty, libVars, consumed, claimVars,
                  orderVars, payVars, invVars, delVars >>

\* a handler call returns
HandlerEnd(n) ==
  /\ main # "exited"
  /\ n \in inflight
  /\ inflight' = inflight \ {n}
  /\ UNCHANGED << main, stopped, intake, worker, faulty, libVars, consumed, claimVars,
                  orderVars, payVars, invVars, delVars >>

\* the outbox worker's select: ctx.Done() makes it return, a tick of the
\* ticker makes it run the relay once
WorkerSelect ==
  /\ main # "exited"
  /\ worker.pc = "select"
  /\ \/ /\ worker.cancelled
        /\ worker' = [worker EXCEPT !.pc = "returned"]
     \/ /\ worker.ticks < MaxTicks
        /\ worker' = [worker EXCEPT !.pc = "tick", !.ticks = @ + 1]
  /\ UNCHANGED << main, stopped, intake, inflight, faulty, libVars, consumed, claimVars,
                  orderVars, payVars, invVars, delVars >>

\* the relay run of a tick is over
WorkerTickDone ==
  /\ main # "exited"
  /\ worker.pc = "tick"
  /\ worker' = [worker EXCEPT !.pc = "select"]
  /\ UNCHANGED << main, stopped, intake, inflight, faulty, libVars, consumed, claimVars,
                  orderVars, payVars, invVars, delVars >>

MainNext ==
  \/ Signal
  \/ ServerShutdown
  \/ CancelWorker
  \/ ConsumerCloseIntake
  \/ ConsumerCloseDrained
  \/ PublisherClose
  \/ RedisClose
  \/ DBClose
  \/ HandlerStart
  \/ \E n \in Offsets : HandlerEnd(n)
  \/ WorkerSelect
  \/ WorkerTickDone

MainSpec == Init /\ [][MainNext]_vars

\* ==================================================== the saga, end to end
\* the outbox table the events of a topic are written to
OutboxOf(topic) ==
  CASE topic = EventOrderCreated -> orderOutbox
    [] topic \in {EventPaymentCompleted, EventPaymentFailed,
                  EventPaymentRefunded} -> payOutbox
    [] topic \in {EventStockReserved, EventStockReservationFailed,
                  EventStockRestored} -> invOutbox
    [] topic \in {EventDeliveryStarted, EventDeliveryFailed} -> delOutbox

\* the event of a topic for an order is committed to its outbox, from where
\* the service's relay publishes it to the topic
OnBus(topic, oid) ==
  \E i \in Indices(OutboxOf(topic)) :
    OutboxOf(topic)[i].type = topic /\ OutboxOf(topic)[i].oid = oid

\* a consumer group is handed each message of a topic it subscribes to once:
\* ConsumeClaim marks every message it has passed to the handler
Consumable(group, topic, oid) ==
  OnBus(topic, oid) /\ << group, topic, oid >> \notin consumed

\* the Order consumer group hands an event to EventHandler.HandleMessage; the
\* claims of different topics run side by side
SagaOrderDeliver(h, topic, oid) ==
  /\ Consumable("order-service-group", topic, oid)
  /\ oh[h].pc = "idle"
  /\ h = FirstFree(Handlers, {g \in Handlers : oh[g].pc # "idle"})
  /\ consumed' = consumed \cup {<< "order-service-group", topic, oid >>}
  /\ oh' = [oh EXCEPT ![h] = [IdleHandler EXCEPT !.pc = "gate",
                                !.topic = topic, !.oid = oid]]
  /\ UNCHANGED << orders, orderOutbox, orderOutboxSeq, req, calls, orderGate,
                  orderDelivered, lastChange, faulty, libVars, claimVars, mainVars,
                  payVars, invVars, delVars >>

\* the Payment consumer group hands an event to its handler
SagaPaymentDeliver(h, topic, oid) ==
  /\ Consumable("payment-service-group", topic, oid)
  /\ ph[h].pc = "idle"
  /\ h = FirstFree(Handlers, {g \in Handlers : ph[g].pc # "idle"})
  /\ consumed' = consumed \cup {<< "payment-service-group", topic, oid >>}
  /\ ph' = [ph EXCEPT ![h] = [IdlePaymentHandler EXCEPT !.pc = "gate",
                                !.topic = topic, !.oid = oid,
                                !.corr = CorrelationID(oid)]]
  /\ UNCHANGED << payments, payOutbox, payOutboxSeq, payGate, payDelivered,
                  clock, relay, published, faulty, libVars, claimVars, mainVars,
                  orderVars, invVars, delVars >>

\* the Inventory consumer group hands an event to its handler
SagaInvDeliver(h, topic, oid) ==
  /\ Consumable("inventory-service-group", topic, oid)
  /\ ih[h].pc = "idle"
  /\ h = FirstFree(Handlers, {g \in Handlers : ih[g].pc # "idle"})
  /\ consumed' = consumed \cup {<< "inventory-service-group", topic, oid >>}
  /\ ih' = [ih EXCEPT ![h] = [IdleInvHandler EXCEPT !.pc = "gate",
                                !.topic = topic, !.oid = oid,
                                !.corr = CorrelationID(oid)]]
  /\ UNCHANGED << inventory, reservations, invOutbox, invLock, invGate,
                  invDelivered, faulty, libVars, claimVars, mainVars,
                  orderVars, payVars, delVars >>

\* the Delivery service is handed the StockReserved event of an order
SagaDeliveryDeliver(h, oid) ==
  /\ Consumable("delivery-service-group", EventStockReserved, oid)
  /\ dh[h].pc = "idle"
  /\ h = FirstFree(Handlers, {g \in Handlers : dh[g].pc # "idle"})
  /\ consumed' =
       consumed \cup {<< "delivery-service-group", EventStockReserved, oid >>}
  /\ dh' = [dh EXCEPT ![h] = [IdleDeliveryHandler EXCEPT !.pc = "find",
                                !.oid = oid, !.corr = CorrelationID(oid)]]
  /\ UNCHANGED << deliveries, delOutbox, delDelivered, faulty, libVars, claimVars,
                  mainVars, orderVars, payVars, invVars >>

\* one order is placed; every event that is committed reaches the consumers
\* that subscribe to its topic, and the handlers run
SagaNext ==
  \/ (Len(orders) = 0 \/ req[1].pc \notin {"idle", "done"}) /\ CreateOrder(1)
  \/ \E h \in Handlers, topic \in OrderTopics, oid \in OrderIds :
       SagaOrderDeliver(h, topic, oid)
  \/ \E h \in Handlers, topic \in PaymentTopics, oid \in OrderIds :
       SagaPaymentDeliver(h, topic, oid)
  \/ \E h \in Handlers, topic \in InvTopics, oid \in OrderIds :
       SagaInvDeliver(h, topic, oid)
  \/ \E h \in Handlers, oid \in OrderIds : SagaDeliveryDeliver(h, oid)
  \/ \E h \in Handlers :
       OrderHandleMessage(h) /\ orderDelivered' = orderDelivered
  \/ \E h \in Handlers :
       PaymentHandleMessage(h) /\ payDelivered' = payDelivered
  \/ \E h \in Handlers : InvHandleMessage(h) /\ invDelivered' = invDelivered
  \/ \E h \in Handlers : HandleStockReserved(h) /\ delDelivered' = delDelivered

\* no database, key-value or bus call fails
SagaInit ==
  /\ OrderInit /\ PayInit /\ InvInit /\ DelInit /\ SysInit
  /\ faulty = FALSE

SagaSpec == SagaInit /\ [][SagaNext]_vars

\* every goroutine keeps running: a step that can be taken is taken
SagaLiveSpec == SagaSpec /\ WF_vars(SagaNext)

\* all services side by side
Next ==
  \/ OrderNext
  \/ CreateNext
  \/ PayNext
  \/ InvNext
  \/ DelNext

\* the consumers of Payment, Inventory and Delivery, each observed on its own:
\* the services share no state, so a behaviour concerns one of them
ConsumersNext ==
  \/ invDelivered = 0 /\ delDelivered = 0 /\ \E h \in Handlers : PaymentHandleMessage(h)
  \/ payDelivered = 0 /\ delDelivered = 0 /\ InvNext
  \/ payDelivered = 0 /\ invDelivered = 0 /\ DelNext

ConsumersSpec == Init /\ [][ConsumersNext]_vars

StoreSpec == Init /\ [][StoreNext]_vars

RetrySpec == Init /\ [][RetryNext]_vars

Spec == Init /\ [][Next]_vars

\* C19: every event a handler emits has the correlationId of the event that
\* caused it, which is the one CreateOrder generated for the order: all outbox
\* rows concerning one order carry the same correlationId.
C19_CorrelationIdCarried ==
  /\ \A i \in Indices(payOutbox) :
       payOutbox[i].corr = CorrelationID(payOutbox[i].oid)
  /\ \A i \in Indices(invOutbox) :
       invOutbox[i].corr = CorrelationID(invOutbox[i].oid)
  /\ \A i \in Indices(delOutbox) :
       delOutbox[i].corr = CorrelationID(delOutbox[i].oid)

\* C19 witness: Inventory has emitted StockReservationFailed and StockReserved
\* for two orders
C19_Witness ==
  /\ \E i \in Indices(invOutbox) : invOutbox[i].type = EventStockReservationFailed
  /\ \E i \in Indices(invOutbox) : invOutbox[i].type = EventStockReserved

\* ================================================ claims, Inventory service
\* C13: delivering one event any number of times, one delivery after the
\* other or overlapping, creates at most one Payment row (OrderCreated), at
\* most one stock reservation row (PaymentCompleted) and at most one Delivery
\* row (StockReserved) for that event.
C13_AtMostOneRowPerEvent ==
  /\ \A o \in OrderIds :
       Cardinality({ i \in Indices(payments) :
         payments[i].key = PaymentIdempotencyKey(o, EventID(EventOrderCreated, o)) }) <= 1
  /\ \A o \in InvOrderIds :
       Cardinality({ i \in Indices(reservations) :
         reservations[i].key =
           ReservationIdempotencyKey(o, EventID(EventPaymentCompleted, o)) }) <= 1
  /\ \A o \in DelOrderIds :
       Cardinality({ i \in Indices(deliveries) :
         deliveries[i].key =
           DeliveryIdempotencyKey(o, EventID(EventStockReserved, o)) }) <= 1

\* C13 witness: the Delivery row of an event is committed and another call for
\* the same event has passed the pre-check and is at its INSERT
C13_Witness ==
  \E h \in Handlers :
    dh[h].pc = "insert" /\ DeliveryKeyCommitted(DeliveryKey(h))

\* C17: in every reachable state the inventory row has availableQty >= 0 and
\* reservedQty >= 0.
C17_QuantitiesNonNegative ==
  inventory.available >= 0 /\ inventory.reserved >= 0

\* C18: no step changes availableQty + reservedQty of the product: every
\* reservation and every restore keeps the sum, so after a restore it is what
\* it was before the reservation.
C18_SumUnchanged ==
  [][inventory'.available + inventory'.reserved
       = inventory.available + inventory.reserved]_vars

\* C18 witness: a reservation was committed and then restored
C18_Witness ==
  \E i \in Indices(reservations) :
    /\ reservations[i].status = "CANCELED"
    /\ \E k \in Indices(invOutbox) :
         invOutbox[k].type = EventStockRestored /\ invOutbox[k].aggId = i

\* ================================================== claims, Payment service
\* a handler for the topic is still working on payment row p
PaymentInFlight(topic, p) ==
  \E h \in Handlers : ph[h].topic = topic /\ ph[h].payId = p

\* the committed outbox rows of a type whose aggregate is payment row p
PaymentRows(type, p) ==
  { i \in Indices(payOutbox) :
      payOutbox[i].type = type /\ payOutbox[i].aggId = p }

\* C4: once the handling of OrderCreated that inserted a Payment row (status
\* COMPLETED) has finished, in whatever way, the Payment row exists if and
\* only if its PaymentCompleted outbox row exists.
C4_PaymentCompletedAtomic ==
  /\ \A p \in Indices(payments) :
       ~PaymentInFlight(EventOrderCreated, p) =>
         PaymentRows(EventPaymentCompleted, p) # {}
  /\ \A i \in Indices(payOutbox) :
       payOutbox[i].type = EventPaymentCompleted =>
         payOutbox[i].aggId \in Indices(payments)

\* C5: once no handling of StockReservationFailed is working on a payment, the
\* payment is REFUNDED if and only if a PaymentRefunded outbox row for it
\* exists.
C5_RefundAtomic ==
  \A p \in Indices(payments) :
    ~PaymentInFlight(EventStockReservationFailed, p) =>
      (payments[p].status = "REFUNDED"
         <=> PaymentRows(EventPaymentRefunded, p) # {})

\* the status of the committed outbox row id, "none" while there is none
RowStatusIn(outbox, id) ==
  IF \E i \in Indices(outbox) : outbox[i].id = id
  THEN OutboxRow(outbox, id).status ELSE "none"

RowStatus(id) == RowStatusIn(payOutbox, id)

WasPublished(id) == \E k \in Indices(published) : published[k] = id

\* C7: under a live relay every outbox row committed with status PENDING
\* eventually has status SENT.
C7_PendingEventuallySent ==
  \A id \in PayOutboxIds : (RowStatus(id) = "PENDING") ~> (RowStatus(id) = "SENT")

\* C7 witness: a committed row is still PENDING after the relay published it
\* and the UPDATE that marks it failed, the relay being back at rest
C7_Witness ==
  /\ relay.pc = "idle"
  /\ \E id \in PayOutboxIds : RowStatus(id) = "PENDING" /\ WasPublished(id)

\* C8: a row becomes SENT only after a publish of it succeeded, so every SENT
\* row has been published; a failed publish leaves the row PENDING, and every
\* tick whose SELECT succeeds selects every PENDING row again.
C8_SentOnlyAfterPublish ==
  [][/\ \A i \in Indices(payOutbox') :
          payOutbox'[i].status = "SENT" =>
            \E k \in Indices(published') : published'[k] = payOutbox'[i].id
     /\ (relay.pc = "publish" /\ relay'.pc # "mark") =>
          RowStatusIn(payOutbox', Head(relay.batch)) = "PENDING"
     /\ (relay.pc = "idle" /\ relay'.pc = "publish") =>
          \A id \in PayOutboxIds :
            RowStatus(id) = "PENDING" =>
              \E k \in Indices(relay'.batch) : relay'.batch[k] = id]_vars

\* C8 witness: a row is SENT and the relay is publishing on a later tick
C8_Witness ==
  /\ relay.pc = "publish"
  /\ \E id \in PayOutboxIds : RowStatus(id) = "SENT" /\ WasPublished(id)

\* C9: no step deletes an outbox row or changes its id, and a SENT row stays
\* SENT: a row goes from PENDING to SENT at most once and never back.
C9_SentIsFinal ==
  [][\A i \in Indices(payOutbox) :
       /\ i \in Indices(payOutbox')
       /\ payOutbox'[i].id = payOutbox[i].id
       /\ payOutbox[i].status = "SENT" => payOutbox'[i].status = "SENT"]_vars

\* C9 witness: the relay marks a row while another row is already SENT
C9_Witness ==
  /\ relay.pc = "mark"
  /\ \E id \in PayOutboxIds : RowStatus(id) = "SENT" /\ id # Head(relay.batch)

\* C10: per order, rows are first published in ascending outbox id: of two
\* published rows of one order, the one published first has the smaller id.
C10_PublishedInIdOrder ==
  \A j, k \in Indices(published) :
    (j < k /\ OutboxRow(payOutbox, published[j]).oid
                = OutboxRow(payOutbox, published[k]).oid)
      => published[j] < published[k]

\* the decimal string of a non-negative integer, as the sequence of its digits
RECURSIVE Decimal(_)
Decimal(n) == IF n < 10 THEN << n >> ELSE Decimal(n \div 10) \o << n % 10 >>

\* the key argument of publisher.Publish in the Payment relay: the literal "",
\* whatever row is published (a string is the sequence of its characters)
RelayKey(row) == << >>

\* C11: every publish made by the relay uses as partition key the decimal
\* string of the order id carried in the event.
C11_KeyIsDecimalOrderId ==
  \A k \in Indices(published) :
    RelayKey(OutboxRow(payOutbox, published[k]))
      = Decimal(OutboxRow(payOutbox, published[k]).oid)

\* the committed Payment outbox rows of an order whose type is in types
RowsOfOrder(o, types) ==
  { i \in Indices(payOutbox) : payOutbox[i].oid = o /\ payOutbox[i].type \in types }

\* C12: delivering an event again with the same eventId adds nothing to what
\* one delivery does: one OrderCreated event leaves at most one outcome row
\* (PaymentCompleted or PaymentFailed) and one StockReservationFailed event at
\* most one PaymentRefunded row, whatever the outcome of the first delivery.
C12_DuplicateDeliveryNoNewEffects ==
  \A o \in OrderIds :
    /\ Cardinality(RowsOfOrder(o, {EventPaymentCompleted, EventPaymentFailed})) <= 1
    /\ Cardinality(RowsOfOrder(o, {EventPaymentRefunded})) <= 1

\* C14: for any number of deliveries, sequential or overlapping, of one
\* OrderCreated event to Payment, at most one PaymentCompleted outbox row is
\* written for it.
C14_OnePaymentCompletedRow ==
  \A o \in OrderIds : Cardinality(RowsOfOrder(o, {EventPaymentCompleted})) <= 1

\* C14 witness: the PaymentCompleted row of an event is committed and a second
\* delivery of the event is past the gate and the pre-check, at its INSERT
C14_Witness ==
  \E h \in Handlers :
    /\ ph[h].pc = "create"
    /\ RowsOfOrder(ph[h].oid, {EventPaymentCompleted}) # {}

\* C16: when the INSERT of a duplicate that evaded the gate and the pre-check
\* hits the unique idempotencyKey index, the handler returns success (it goes
\* on as after a successful call, to Reserve the eventId) and emits no event.
C16_UniqueViolationIsSuccess ==
  [][\A h \in Handlers :
       (/\ ph[h].pc = "create" /\ ph'[h].pc # "create"
        /\ FindPaymentByIdempotencyKey(
             PaymentIdempotencyKey(ph[h].oid, EventID(ph[h].topic, ph[h].oid))) # 0)
       => /\ ph'[h].pc = "reserve"
          /\ payOutbox' = payOutbox /\ payOutboxSeq' = payOutboxSeq]_vars

\* ===================================================== claims, Order service
\* C1: every committed change of an order's status is one row of the
\* transition table << current status, causing event, next status >>; an event
\* that finds the order in any other status changes nothing.
C1_OnlyTableTransitions ==
  LET table ==
        { << OrderStatusPending, EventPaymentCompleted, OrderStatusStockReserving >>,
          << OrderStatusPending, EventPaymentFailed, OrderStatusCanceled >>,
          << OrderStatusStockReserving, EventStockReserved,
             OrderStatusDeliveryPreparing >>,
          << OrderStatusStockReserving, EventStockReservationFailed,
             OrderStatusFailed >>,
          << OrderStatusDeliveryPreparing, EventDeliveryStarted,
             OrderStatusCompleted >>,
          << OrderStatusDeliveryPreparing, EventDeliveryFailed,
             OrderStatusFailed >> }
  IN lastChange # NoChange =>
       << lastChange.from, lastChange.by, lastChange.to >> \in table

\* C2: COMPLETED, CANCELED and FAILED are absorbing: no step changes the
\* status of an order that has one of them.
C2_TerminalAbsorbing ==
  [][\A o \in Indices(orders) :
       orders[o].status \in TerminalStatuses =>
         orders'[o].status = orders[o].status]_vars

\* the OrderCreated outbox rows committed for an order
OrderCreatedRows(o) ==
  { i \in Indices(orderOutbox) :
      orderOutbox[i].type = EventOrderCreated /\ orderOutbox[i].aggId = o }

\* the CreateOrder call that inserted order o has returned
CreateFinished(o) == \A r \in Reqs : req[r].pc = "done" \/ req[r].orderId # o

\* C3: once the CreateOrder call that wrote an order row has finished, in
\* whatever way, the order row exists if and only if exactly one OrderCreated
\* outbox row for that order exists.
C3_CreateOrderAtomic ==
  /\ \A o \in Indices(orders) :
       CreateFinished(o) => Cardinality(OrderCreatedRows(o)) = 1
  /\ \A i \in Indices(orderOutbox) : orderOutbox[i].aggId \in Indices(orders)

\* C6: every committed mutation of an aggregate comes with exactly one outbox
\* row of the same transaction; stated for the status transitions made by the
\* Order service's event handlers: a step that changes the status of an order
\* adds exactly one row to the Order service's outbox.
C6_TransitionWritesOutboxRow ==
  [][(\E o \in Indices(orders) : orders'[o].status # orders[o].status) =>
       Len(orderOutbox') = Len(orderOutbox) + 1]_vars

\* C15: two CreateOrder requests with the same non-empty idempotencyKey that
\* both end without a database failure return the same orderId, and then
\* exactly one order row has the key and exactly one OrderCreated outbox row
\* exists for it.
C15_SameKeySameOrder ==
  \A r1, r2 \in Reqs :
    (/\ r1 # r2
     /\ req[r1].pc = "done" /\ req[r2].pc = "done"
     /\ req[r1].key # "" /\ req[r1].key = req[r2].key
     /\ req[r1].result \notin {"error", "invalid"}
     /\ req[r2].result \notin {"error", "invalid"})
    => /\ req[r1].result \in {"created", "existing"}
       /\ req[r2].result \in {"created", "existing"}
       /\ req[r1].resultId = req[r2].resultId
       /\ Cardinality({ o \in Indices(orders) : orders[o].key = req[r1].key }) = 1
       /\ Cardinality(OrderCreatedRows(req[r1].resultId)) = 1

\* C20: a handler whose version-conditional update affects 0 rows because a
\* concurrent handler changed the order first does not return as if it had
\* applied the event: if the event's transition is enabled on the status the
\* order has now, the step that ends the handler's update has applied it.
C20_LostRaceIsRetried ==
  [][\A h \in Handlers :
       LET o == oh[h].oid
           source == CASE oh[h].topic \in {EventPaymentCompleted, EventPaymentFailed}
                            -> OrderStatusPending
                       [] oh[h].topic \in {EventStockReserved, EventStockReservationFailed}
                            -> OrderStatusStockReserving
                       [] OTHER -> OrderStatusDeliveryPreparing
       IN  (/\ oh[h].pc = "update" /\ oh'[h].pc = "reserve"
            /\ orders[o].version # oh[h].version
            /\ orders[o].status = source)
           => orders'[o].status = HandlerTarget(oh[h].topic)]_vars

\* C21: an offset is marked only after the handler call for its message has
\* returned, and within a partition claim the handler is not called with the
\* next message before the call for the current one has returned
C21_MarkAfterHandlerReturn ==
  /\ \A n \in marked : n \notin running /\ results[n] # << >>
  /\ Cardinality(running) <= 1
  /\ running # {} => claim.pc = "wait" /\ running = {claim.pos}

\* message 1 is marked and the handler is running for message 2
C21_Witness == 1 \in marked /\ 2 \in running

\* C22: a message whose handler call returned an error is not marked consumed
\* (so that the bus delivers it again)
C22_ErrorIsNotMarked ==
  \A n \in Offsets :
    (results[n] # << >> /\ results[n][Len(results[n])] = "error")
      => n \notin marked
\* C27: a POST /orders with a non-positive amount or a non-positive quantity
\* is answered with status 400 and creates no order row and no outbox row
C27_InvalidOrderIs400 ==
  \A r \in Reqs :
    (req[r].pc = "done" /\ (req[r].amount <= 0 \/ req[r].quantity <= 0))
      => /\ HTTPStatus(req[r].result) = 400
         /\ req[r].orderId = 0
         /\ req[r].tx = << >>
\* C28: a refund is applied at most once per payment: for any number of
\* deliveries of StockReservationFailed for one order, sequential or
\* overlapping, at most one PaymentRefunded outbox row is written for the
\* order's Payment
C28_RefundAtMostOnce ==
  \A p \in Indices(payments) :
    Cardinality(PaymentRows(EventPaymentRefunded, p)) <= 1
\* the committed StockRestored outbox rows of reservation i
StockRestoredRows(i) ==
  { k \in Indices(invOutbox) :
      invOutbox[k].type = EventStockRestored /\ invOutbox[k].aggId = i }

\* C29: a stock restore is applied at most once per reservation: under any
\* interleaving of PaymentRefunded deliveries for one order the inventory is
\* credited, and StockRestored emitted, at most once for a reservation
C29_RestoreAtMostOnce ==
  \A i \in Indices(reservations) : Cardinality(StockRestoredRows(i)) <= 1
\* the orders with a committed outbox row of the type
OrdersWithEvent(type) ==
  { o \in InvOrderIds :
      \E k \in Indices(invOutbox) :
        invOutbox[k].type = type /\ invOutbox[k].oid = o }

\* the PaymentCompleted events of all n orders were handed to Inventory once
\* each, possibly side by side, every one of them got its outcome, and no
\* refund was handled
ReservationsSettled ==
  /\ invDelivered = Cardinality(InvOrderIds)
  /\ \A h \in Handlers : ih[h].pc = "idle"
  /\ OrdersWithEvent(EventStockReserved)
       \cup OrdersWithEvent(EventStockReservationFailed) = InvOrderIds
  /\ Len(invOutbox) = Cardinality(InvOrderIds)

\* C26: with k units available and n > k PaymentCompleted events of n
\* different orders handled concurrently, each reserving one unit, exactly k
\* StockReserved and n-k StockReservationFailed events are emitted and the
\* row ends with availableQty = 0 and reservedQty = k
C26_ConcurrentReservations ==
  LET k == inventory.available + inventory.reserved
      n == Cardinality(InvOrderIds)
  IN  (ReservationsSettled /\ n > k) =>
        /\ Cardinality(OrdersWithEvent(EventStockReserved)) = k
        /\ Cardinality(OrdersWithEvent(EventStockReservationFailed)) = n - k
        /\ Len(reservations) = k
        /\ inventory.available = 0
        /\ inventory.reserved = k

\* C26 witness: one unit, two orders: one got StockReserved, the other
\* StockReservationFailed
C26_Witness ==
  /\ ReservationsSettled
  /\ inventory.available + inventory.reserved = 1
  /\ OrdersWithEvent(EventStockReserved) # {}
  /\ OrdersWithEvent(EventStockReservationFailed) # {}
\* the position of a component in the order of stopping, 0 if not stopped
StoppedAt(what) ==
  IF \E i \in Indices(stopped) : stopped[i] = what
  THEN CHOOSE i \in Indices(stopped) : stopped[i] = what
  ELSE 0

\* C30: on shutdown the consumer's intake is stopped first, then the handlers
\* in flight are drained, then the outbox relay is stopped, and the database
\* pool is closed last; the relay is not stopped before the consumer has
\* stopped taking messages
C30_ShutdownOrder ==
  /\ StoppedAt("drained") # 0 => StoppedAt("intake") # 0
  /\ StoppedAt("relay") # 0 =>
       /\ StoppedAt("intake") # 0 /\ StoppedAt("intake") < StoppedAt("relay")
       /\ StoppedAt("drained") # 0 /\ StoppedAt("drained") < StoppedAt("relay")
  /\ StoppedAt("db") # 0 =>
       /\ StoppedAt("relay") # 0
       /\ StoppedAt("db") = Len(stopped)
\* ============================================================ claims, saga
\* the Payment rows of an order with the status
PaymentsOf(o, status) ==
  { p \in Indices(payments) :
      payments[p].orderId = o /\ payments[p].status = status }

\* the reservations of an order with the status
ReservationsOf(o, status) ==
  { i \in Indices(reservations) :
      reservations[i].orderId = o /\ reservations[i].status = status }

\* the Delivery rows of an order
DeliveriesOf(o) == { i \in Indices(deliveries) : deliveries[i].orderId = o }

\* the order exists and has the status
OrderIs(o, status) == o \in Indices(orders) /\ orders[o].status = status

\* the payment of order 1 succeeded and the product has a unit in stock
HappyPath ==
  /\ OnBus(EventPaymentCompleted, 1)
  /\ inventory.available + inventory.reserved >= ReserveQuantity

\* the terminal state of the happy path
HappyEnd ==
  /\ OrderIs(1, OrderStatusCompleted)
  /\ Cardinality(PaymentsOf(1, "COMPLETED")) = 1
  /\ Cardinality(ReservationsOf(1, "RESERVED")) = 1
  /\ Cardinality(DeliveriesOf(1)) = 1
  /\ inventory.reserved = ReserveQuantity

\* C23: happy path: for an order of quantity 1 on a product with enough stock,
\* when the payment succeeds and no step fails, the saga eventually reaches
\* the state in which the order is COMPLETED, one Payment COMPLETED, one
\* reservation RESERVED and one Delivery exist for it, and one unit has moved
\* from availableQty to reservedQty
C23_HappyPathCompletes == HappyPath ~> HappyEnd

\* the payment of order 1 was declined
Declined == OnBus(EventPaymentFailed, 1)

StockInsufficient ==
  OnBus(EventStockReservationFailed, 1) /\ OnBus(EventPaymentCompleted, 1)

\* C25: when Inventory emits StockReservationFailed for an order whose
\* payment completed, the events occur in the order OrderCreated,
\* PaymentCompleted, StockReservationFailed, PaymentRefunded, and eventually
\* the order is FAILED and its Payment REFUNDED, with the inventory row
\* unchanged and no Delivery row for the order
C25_StockInsufficient ==
  /\ [](/\ OnBus(EventPaymentRefunded, 1) => OnBus(EventStockReservationFailed, 1)
        /\ OnBus(EventStockReservationFailed, 1) => OnBus(EventPaymentCompleted, 1)
        /\ OnBus(EventPaymentCompleted, 1) => OnBus(EventOrderCreated, 1))
  /\ (StockInsufficient ~>
        /\ OrderIs(1, OrderStatusFailed)
        /\ Cardinality(PaymentsOf(1, "REFUNDED")) = 1
        /\ inventory.reserved = 0 /\ inventory.version = 0
        /\ DeliveriesOf(1) = {})
\* C31: semantic lock: every status change the Order service's event handlers
\* commit, from an old to a new status, satisfies CanTransitionTo(old, new),
\* and CanTransitionTo is false for every transition out of COMPLETED,
\* CANCELED or FAILED
C31_OnlyAllowedTransitions ==
  /\ lastChange # NoChange => CanTransitionTo(lastChange.from, lastChange.to)
  /\ \A status \in TerminalStatuses, newStatus \in OrderStatuses :
       ~CanTransitionTo(status, newStatus)
\* C32: in every reachable state each order has at most one stock reservation
\* with status RESERVED
C32_OneActiveReservation ==
  \A o \in InvOrderIds : Cardinality(ReservationsOf(o, "RESERVED")) <= 1

\* C32 witness: an order has its RESERVED reservation, stock is left, and a
\* second delivery of its PaymentCompleted event is being handled
C32_Witness ==
  \E h \in Handlers :
    /\ ih[h].topic = EventPaymentCompleted /\ ih[h].pc \in {"find", "insert"}
    /\ ReservationsOf(ih[h].oid, "RESERVED") # {}
    /\ inventory.available >= ReserveQuantity
\* C33: a consumer handler records an event in the idempotency gate only after
\* the business handler returned success: the gate grows only in the Reserve
\* step that follows a successful service call, a handler that leaves the
\* service call with an error leaves the gate as it was, and a handler whose
\* eventId is in the gate returns without invoking the service.
C33_GateOnlyAfterSuccess ==
  [][\A h \in Handlers :
       /\ (orderGate' # orderGate /\ oh'[h] # oh[h]) => oh[h].pc = "reserve"
       /\ (oh[h].pc \in {"find", "update"} /\ oh'[h].pc = "idle")
            => orderGate' = orderGate
       /\ (/\ oh[h].pc = "gate"
           /\ EventID(oh[h].topic, oh[h].oid) \in orderGate
           /\ oh'[h] # oh[h])
            => oh'[h].pc = "idle"]_vars
\* C34: the idempotency store is namespaced per service and Reserve is
\* exclusive: of the Reserve calls Redis answered for one key of one service
\* since the key was last released or expired, exactly the first returned
\* true; an answered IsProcessed(key) of a service is true exactly when that
\* service holds a reservation for key, whatever other services reserved.
C34_StoreNamespacedExclusive ==
  /\ \A p \in StoreSlots :
       \A i \in 1..Len(answers[p]) : answers[p][i] <=> (i = 1)
  /\ (storeLast.op = "IsProcessed" /\ ~storeLast.err)
       => (storeLast.ok <=> << storeLast.prefix, storeLast.key >> \in held)

\* Payment asks for an eventId that only Order has reserved, twice over
C34_Witness ==
  /\ storeLast = [op |-> "IsProcessed", prefix |-> "payment-service",
                  key |-> "evt-1", ok |-> FALSE, err |-> FALSE]
  /\ << "order-service", "evt-1" >> \in held
  /\ Len(answers[<< "order-service", "evt-1" >>]) >= 2
\* C35: retry.Do is bounded: fn is called at most MaxAttempts times; after
\* the first call of fn that succeeds Do returns nil and fn is not called
\* again; after MaxAttempts failed calls Do returns an error that wraps the
\* last error; when the context is cancelled before an attempt or during a
\* backoff wait Do returns the context's error and fn is not called again;
\* and no wait between two attempts is longer than MaxInterval.
C35_DoBounded ==
  /\ retry.calls <= retry.config.MaxAttempts
  /\ retry.okCalls <= 1
  /\ retry.okCalls = 1 => retry.pc = "done" /\ retry.ret = "nil"
  /\ (retry.pc = "done" /\ retry.okCalls = 0
        /\ retry.calls = retry.config.MaxAttempts)
       => retry.ret = "attempts" /\ retry.wrapped = retry.lastErr
  /\ (retry.pc = "done" /\ retry.cancelPc \in {"top", "wait"})
       => retry.ret = "ctx" /\ retry.calls = retry.cancelCalls
  /\ retry.maxWait <= retry.config.MaxInterval
\* C36: every created order eventually reaches a terminal status (COMPLETED,
\* CANCELED or FAILED) when every emitted event is delivered to each
\* subscribed service, in whatever order the events of different topics
\* arrive at the Order service and however its handlers interleave.
C36_EveryOrderTerminates ==
  \A o \in OrderIds :
    (o \in Indices(orders)) ~> (\E status \in TerminalStatuses : OrderIs(o, status))
\* the sum of the quantities of the first n reservations that are RESERVED
RECURSIVE ReservedSum(_)
ReservedSum(n) ==
  IF n = 0 THEN 0
  ELSE ReservedSum(n - 1) +
       (IF reservations[n].status = "RESERVED" THEN reservations[n].qty ELSE 0)

\* C37: in every reachable state reservedQty of the product, less its initial
\* value 0, equals the sum of the quantities of the product's reservations
\* with status RESERVED: no reservation is cancelled without the row being
\* credited and the row is not credited without a reservation becoming
\* CANCELED.
C37_ReservedMatchesReservations ==
  inventory.reserved = ReservedSum(Len(reservations))
\* C38: Payment decides the outcome of an order once: no order has both a
\* PaymentFailed and a PaymentCompleted outbox row, also when its OrderCreated
\* event is delivered again after a declined first attempt.
C38_OneOutcomePerOrder ==
  \A o \in OrderIds :
    \/ RowsOfOrder(o, {EventPaymentFailed}) = {}
    \/ RowsOfOrder(o, {EventPaymentCompleted}) = {}
\* C39: Inventory decides the outcome of an order once: no order has both a
\* StockReserved and a StockReservationFailed outbox row, also when its
\* PaymentCompleted event is delivered again after a failed first attempt;
\* hence no order has both a Delivery row and a REFUNDED payment.
C39_OneStockOutcomePerOrder ==
  /\ OrdersWithEvent(EventStockReserved)
       \cap OrdersWithEvent(EventStockReservationFailed) = {}
  /\ \A o \in InvOrderIds :
       DeliveriesOf(o) = {} \/ PaymentsOf(o, "REFUNDED") = {}
====
